---- MODULE Spec2Model ----
(***************************************************************************)
(* Trade-dojo: the futures position engine, the spot ledger engine and the *)
(* TradingDashboard component that drives them from the price feed and the *)
(* user's forms.                                                           *)
(*                                                                         *)
(* Numbers are exact rationals [n |-> numerator, d |-> denominator] in     *)
(* lowest terms with d > 0.  The record with d = 0 stands for a field that *)
(* is undefined in the source (an optional field that was not given).      *)
(***************************************************************************)
EXTENDS Integers, Naturals, Sequences, FiniteSets, TLC

VARIABLES portfolio, trades, futuresPositions, assets,
          rendered, effect, credited, nextId, ticks, call,
          priceCache, clock, requests, loaded, localStorage

\* the price service, the dashboard's refresh timer and the browser's storage
svcvars == <<priceCache, clock, requests, loaded, localStorage>>

vars == <<portfolio, trades, futuresPositions, assets,
          rendered, effect, credited, nextId, ticks, call, svcvars>>

(***************************************************************************)
(* Bounds of the model                                                     *)
(***************************************************************************)
MaxTicks == 2
MaxTrades == 2
MaxPositions == 2

(***************************************************************************)
(* Rational arithmetic                                                     *)
(***************************************************************************)
RECURSIVE GCD(_, _)
GCD(a, b) == IF b = 0 THEN a ELSE GCD(b, a % b)

Abs(x) == IF x < 0 THEN -x ELSE x

Frac(n, d) ==
  LET s == IF d < 0 THEN -1 ELSE 1
      g == GCD(Abs(n), Abs(d))
  IN  [n |-> (s * n) \div g, d |-> (s * d) \div g]

R(i) == [n |-> i, d |-> 1]

Undef == [n |-> 0, d |-> 0]

Defined(x) == x.d # 0

LCM(a, b) == (a \div GCD(a, b)) * b

\* sums and comparisons go through the least common denominator, products
\* cancel across before multiplying, to keep every integer in range
RAdd(a, b) ==
  LET l == LCM(a.d, b.d)
  IN  Frac(a.n * (l \div a.d) + b.n * (l \div b.d), l)
RSub(a, b) ==
  LET l == LCM(a.d, b.d)
  IN  Frac(a.n * (l \div a.d) - b.n * (l \div b.d), l)
RMul(a, b) ==
  LET g1 == GCD(Abs(a.n), b.d)
      g2 == GCD(Abs(b.n), a.d)
  IN  Frac((a.n \div g1) * (b.n \div g2), (a.d \div g2) * (b.d \div g1))
RDiv(a, b) == RMul(a, Frac(b.d, b.n))
RLt(a, b) ==
  LET l == LCM(a.d, b.d)
  IN  a.n * (l \div a.d) < b.n * (l \div b.d)
RLe(a, b) ==
  LET l == LCM(a.d, b.d)
  IN  a.n * (l \div a.d) <= b.n * (l \div b.d)
RAbs(a) == [n |-> Abs(a.n), d |-> a.d]

\* JavaScript truthiness of an optional number: undefined and 0 are falsy
Truthy(x) == Defined(x) /\ x.n # 0

(***************************************************************************)
(* Program constants                                                       *)
(***************************************************************************)
FUTURES_FEE_RATE == Frac(5, 10000)
MAINTENANCE_MARGIN_RATE == Frac(1, 100)
MIN_LEVERAGE == 1
MAX_LEVERAGE == 100
MIN_MARGIN == 10
TRADING_FEE_PERCENTAGE == Frac(1, 10)
INITIAL_BALANCE == 10000
\* the full-exit threshold 0.00000001 of executeTrade, as 1 / EXIT_THRESHOLD_INV
EXIT_THRESHOLD_INV == 100000000

\* LeExitThreshold with the threshold 0: only an exact full exit
LeExitThreshold_mut(x) == x.n <= 0

\* x <= 0.00000001, computed without leaving the 32-bit range
LeExitThreshold(x) == x.n <= x.d \div EXIT_THRESHOLD_INV

(***************************************************************************)
(* Futures engine                                                          *)
(***************************************************************************)
\* calculateLiquidationPrice without the maintenance margin
calculateLiquidationPrice_mut(side, entryPrice, leverage) ==
  IF side = "LONG"
  THEN RMul(entryPrice, RSub(R(1), RDiv(R(1), leverage)))
  ELSE RMul(entryPrice, RAdd(R(1), RDiv(R(1), leverage)))

calculateLiquidationPrice(side, entryPrice, leverage) ==
  IF side = "LONG"
  THEN RMul(entryPrice,
            RAdd(RSub(R(1), RDiv(R(1), leverage)), MAINTENANCE_MARGIN_RATE))
  ELSE RMul(entryPrice,
            RSub(RAdd(R(1), RDiv(R(1), leverage)), MAINTENANCE_MARGIN_RATE))

\* validateFuturesOrder with the LONG stop-loss test written > instead of >=
validateFuturesOrder_mut(formData, asset, availableBalance) ==
  LET liquidationPrice ==
        calculateLiquidationPrice(formData.side, asset.current_price,
                                  formData.leverage)
      sl == formData.stopLoss
      tp == formData.takeProfit
      Invalid(e) == [valid |-> FALSE, error |-> e,
                     liquidationPrice |-> Undef, maxLoss |-> Undef]
  IN  IF RLt(formData.margin, R(MIN_MARGIN)) THEN Invalid("MIN_MARGIN")
      ELSE IF RLt(availableBalance, formData.margin) THEN Invalid("BALANCE")
      ELSE IF RLt(formData.leverage, R(MIN_LEVERAGE))
              \/ RLt(R(MAX_LEVERAGE), formData.leverage)
           THEN Invalid("LEVERAGE")
      ELSE IF Defined(sl) /\ formData.side = "LONG"
              /\ RLt(asset.current_price, sl)
           THEN Invalid("STOP_LOSS_LONG")
      ELSE IF Defined(sl) /\ formData.side = "SHORT"
              /\ RLe(sl, asset.current_price)
           THEN Invalid("STOP_LOSS_SHORT")
      ELSE IF Defined(tp) /\ formData.side = "LONG"
              /\ RLe(tp, asset.current_price)
           THEN Invalid("TAKE_PROFIT_LONG")
      ELSE IF Defined(tp) /\ formData.side = "SHORT"
              /\ RLe(asset.current_price, tp)
           THEN Invalid("TAKE_PROFIT_SHORT")
      ELSE [valid |-> TRUE, error |-> "",
            liquidationPrice |-> liquidationPrice,
            maxLoss |-> formData.margin]

\* formData = [asset, side, margin, leverage, stopLoss, takeProfit],
\* asset = [id, current_price]
validateFuturesOrder(formData, asset, availableBalance) ==
  LET liquidationPrice ==
        calculateLiquidationPrice(formData.side, asset.current_price,
                                  formData.leverage)
      sl == formData.stopLoss
      tp == formData.takeProfit
      Invalid(e) == [valid |-> FALSE, error |-> e,
                     liquidationPrice |-> Undef, maxLoss |-> Undef]
  IN  IF RLt(formData.margin, R(MIN_MARGIN)) THEN Invalid("MIN_MARGIN")
      ELSE IF RLt(availableBalance, formData.margin) THEN Invalid("BALANCE")
      ELSE IF RLt(formData.leverage, R(MIN_LEVERAGE))
              \/ RLt(R(MAX_LEVERAGE), formData.leverage)
           THEN Invalid("LEVERAGE")
      ELSE IF Defined(sl) /\ formData.side = "LONG"
              /\ RLe(asset.current_price, sl)
           THEN Invalid("STOP_LOSS_LONG")
      ELSE IF Defined(sl) /\ formData.side = "SHORT"
              /\ RLe(sl, asset.current_price)
           THEN Invalid("STOP_LOSS_SHORT")
      ELSE IF Defined(tp) /\ formData.side = "LONG"
              /\ RLe(tp, asset.current_price)
           THEN Invalid("TAKE_PROFIT_LONG")
      ELSE IF Defined(tp) /\ formData.side = "SHORT"
              /\ RLe(asset.current_price, tp)
           THEN Invalid("TAKE_PROFIT_SHORT")
      ELSE [valid |-> TRUE, error |-> "",
            liquidationPrice |-> liquidationPrice,
            maxLoss |-> formData.margin]

calculateUnrealizedPnL(position, currentPrice) ==
  IF position.side = "LONG"
  THEN RMul(RSub(currentPrice, position.entryPrice), position.quantity)
  ELSE RMul(RSub(position.entryPrice, currentPrice), position.quantity)

openFuturesPosition(formData, asset, id) ==
  [id |-> id,
   asset |-> asset.id,
   side |-> formData.side,
   status |-> "OPEN",
   leverage |-> formData.leverage,
   margin |-> formData.margin,
   entryPrice |-> asset.current_price,
   quantity |-> RDiv(RMul(formData.margin, formData.leverage),
                     asset.current_price),
   currentPrice |-> asset.current_price,
   liquidationPrice |-> calculateLiquidationPrice(
                          formData.side, asset.current_price,
                          formData.leverage),
   stopLoss |-> formData.stopLoss,
   takeProfit |-> formData.takeProfit,
   unrealizedPnL |-> R(0),
   openFee |-> RMul(RMul(formData.margin, formData.leverage),
                    FUTURES_FEE_RATE),
   fundingFees |-> R(0),
   closePrice |-> Undef,
   closeReason |-> "",
   closeFee |-> Undef,
   realizedPnL |-> Undef]

updatePositionPnL(position, currentPrice) ==
  [position EXCEPT !.currentPrice = currentPrice,
                   !.unrealizedPnL =
                      calculateUnrealizedPnL(position, currentPrice)]

shouldLiquidate(position) ==
  IF position.side = "LONG"
  THEN RLe(position.currentPrice, position.liquidationPrice)
  ELSE RLe(position.liquidationPrice, position.currentPrice)

shouldTriggerStopLoss(position) ==
  IF ~Truthy(position.stopLoss) THEN FALSE
  ELSE IF position.side = "LONG"
       THEN RLe(position.currentPrice, position.stopLoss)
       ELSE RLe(position.stopLoss, position.currentPrice)

shouldTriggerTakeProfit(position) ==
  IF ~Truthy(position.takeProfit) THEN FALSE
  ELSE IF position.side = "LONG"
       THEN RLe(position.takeProfit, position.currentPrice)
       ELSE RLe(position.currentPrice, position.takeProfit)

\* closePosition charging the close fee on a liquidation too
closePosition_mut(position, closePrice, reason) ==
  LET pnl == calculateUnrealizedPnL(
               [position EXCEPT !.currentPrice = closePrice], closePrice)
      positionSize == RMul(position.margin, position.leverage)
      closeFee == RMul(positionSize, FUTURES_FEE_RATE)
      realizedPnL == RSub(RSub(RSub(pnl, position.openFee), closeFee),
                          position.fundingFees)
  IN  [position EXCEPT
         !.status = IF reason = "LIQUIDATION" THEN "LIQUIDATED" ELSE "CLOSED",
         !.currentPrice = closePrice,
         !.closePrice = closePrice,
         !.closeReason = reason,
         !.closeFee = closeFee,
         !.unrealizedPnL = pnl,
         !.realizedPnL = realizedPnL]

closePosition(position, closePrice, reason) ==
  LET pnl == calculateUnrealizedPnL(
               [position EXCEPT !.currentPrice = closePrice], closePrice)
      positionSize == RMul(position.margin, position.leverage)
      closeFee == IF reason = "LIQUIDATION" THEN R(0)
                  ELSE RMul(positionSize, FUTURES_FEE_RATE)
      realizedPnL == RSub(RSub(RSub(pnl, position.openFee), closeFee),
                          position.fundingFees)
  IN  [position EXCEPT
         !.status = IF reason = "LIQUIDATION" THEN "LIQUIDATED" ELSE "CLOSED",
         !.currentPrice = closePrice,
         !.closePrice = closePrice,
         !.closeReason = reason,
         !.closeFee = closeFee,
         !.unrealizedPnL = pnl,
         !.realizedPnL = realizedPnL]

\* priceMap is a function from asset ids to integer prices, 0 = no entry
updateAllPositions(positions, priceMap) ==
  [i \in 1..Len(positions) |->
     LET position == positions[i]
     IN  IF position.status # "OPEN" THEN position
         ELSE IF priceMap[position.asset] = 0 THEN position
         ELSE updatePositionPnL(position, R(priceMap[position.asset]))]

\* TriggerReason with the stop-loss tested before the liquidation
TriggerReason_mut(position) ==
  IF position.status # "OPEN" THEN ""
  ELSE IF shouldTriggerStopLoss(position) THEN "STOP_LOSS"
  ELSE IF shouldLiquidate(position) THEN "LIQUIDATION"
  ELSE IF shouldTriggerTakeProfit(position) THEN "TAKE_PROFIT"
  ELSE ""

\* the reason checkPositionTriggers pushes for one position, "" for none
TriggerReason(position) ==
  IF position.status # "OPEN" THEN ""
  ELSE IF shouldLiquidate(position) THEN "LIQUIDATION"
  ELSE IF shouldTriggerStopLoss(position) THEN "STOP_LOSS"
  ELSE IF shouldTriggerTakeProfit(position) THEN "TAKE_PROFIT"
  ELSE ""

checkPositionTriggers(positions) ==
  [toClose |-> SelectSeq(
                 [i \in 1..Len(positions) |->
                    [position |-> positions[i],
                     reason |-> TriggerReason(positions[i])]],
                 LAMBDA tc : tc.reason # ""),
   updated |-> SelectSeq(positions, LAMBDA p : TriggerReason(p) = "")]

(***************************************************************************)
(* Spot trading engine                                                     *)
(***************************************************************************)
\* index of the first holding of the asset, 0 when there is none
\* (findIndex(...) >= 0 in the source is FindHolding(...) > 0 here)
FindHolding(holdings, assetId) ==
  IF \E i \in 1..Len(holdings) : holdings[i].asset = assetId
  THEN CHOOSE i \in 1..Len(holdings) :
         /\ holdings[i].asset = assetId
         /\ \A j \in 1..(i - 1) : holdings[j].asset # assetId
  ELSE 0

RemoveAt(s, i) == SubSeq(s, 1, i - 1) \o SubSeq(s, i + 1, Len(s))

RECURSIVE SumField(_, _)
SumField(holdings, f) ==
  IF Len(holdings) = 0 THEN R(0)
  ELSE RAdd(Head(holdings)[f], SumField(Tail(holdings), f))

\* validateTrade comparing the cost without the fee to the balance
validateTrade_mut(type, asset, quantity, price, pf) ==
  IF RLe(quantity, R(0)) THEN [valid |-> FALSE, error |-> "QUANTITY"]
  ELSE IF RLe(price, R(0)) THEN [valid |-> FALSE, error |-> "PRICE"]
  ELSE IF type = "buy"
  THEN LET totalCost == RMul(quantity, price)
       IN  IF RLt(pf.balance, totalCost)
           THEN [valid |-> FALSE, error |-> "BALANCE"]
           ELSE [valid |-> TRUE, error |-> ""]
  ELSE LET i == FindHolding(pf.holdings, asset.id)
       IN  IF i = 0 THEN [valid |-> FALSE, error |-> "NO_HOLDING"]
           ELSE IF RLt(pf.holdings[i].quantity, quantity)
                THEN [valid |-> FALSE, error |-> "HOLDING_QUANTITY"]
                ELSE [valid |-> TRUE, error |-> ""]

\* portfolio = [balance, holdings], price = the asset's current price
validateTrade(type, asset, quantity, price, pf) ==
  IF RLe(quantity, R(0)) THEN [valid |-> FALSE, error |-> "QUANTITY"]
  ELSE IF RLe(price, R(0)) THEN [valid |-> FALSE, error |-> "PRICE"]
  ELSE IF type = "buy"
  THEN LET totalCost == RMul(quantity, price)
           fee == RDiv(RMul(totalCost, TRADING_FEE_PERCENTAGE), R(100))
           totalWithFee == RAdd(totalCost, fee)
       IN  IF RLt(pf.balance, totalWithFee)
           THEN [valid |-> FALSE, error |-> "BALANCE"]
           ELSE [valid |-> TRUE, error |-> ""]
  ELSE LET i == FindHolding(pf.holdings, asset.id)
       IN  IF i = 0 THEN [valid |-> FALSE, error |-> "NO_HOLDING"]
           ELSE IF RLt(pf.holdings[i].quantity, quantity)
                THEN [valid |-> FALSE, error |-> "HOLDING_QUANTITY"]
                ELSE [valid |-> TRUE, error |-> ""]

calculatePortfolioValue(balance, holdings) ==
  LET totalInvested == SumField(holdings, "totalInvested")
      holdingsValue == SumField(holdings, "currentValue")
  IN  [balance |-> balance,
       holdings |-> holdings,
       totalInvested |-> totalInvested,
       totalValue |-> RAdd(balance, holdingsValue),
       totalPnL |-> RSub(holdingsValue, totalInvested)]

\* the holding written by a buy into an existing holding
BoughtHolding(existing, quantity, price, netTotal) ==
  LET newQuantity == RAdd(existing.quantity, quantity)
      newTotalInvested == RAdd(existing.totalInvested, netTotal)
  IN  [existing EXCEPT
         !.quantity = newQuantity,
         !.averageBuyPrice = RDiv(newTotalInvested, newQuantity),
         !.totalInvested = newTotalInvested,
         !.currentPrice = price,
         !.currentValue = RMul(newQuantity, price),
         !.pnl = RSub(RMul(newQuantity, price), newTotalInvested)]

\* the holding created by the first buy of an asset
NewHolding(assetId, quantity, price, netTotal) ==
  [asset |-> assetId,
   quantity |-> quantity,
   averageBuyPrice |-> price,
   totalInvested |-> netTotal,
   currentPrice |-> price,
   currentValue |-> RMul(quantity, price),
   pnl |-> R(0)]

\* SoldHolding recomputing the average price as a buy does
SoldHolding_mut(existing, quantity, price) ==
  LET newQuantity == RSub(existing.quantity, quantity)
      proportionSold == RDiv(quantity, existing.quantity)
      investedSold == RMul(existing.totalInvested, proportionSold)
  IN  [existing EXCEPT
         !.quantity = newQuantity,
         !.averageBuyPrice =
            RDiv(RSub(existing.totalInvested, investedSold), newQuantity),
         !.totalInvested = RSub(existing.totalInvested, investedSold),
         !.currentValue = RMul(newQuantity, price),
         !.pnl = RSub(RMul(newQuantity, price),
                      RSub(existing.totalInvested, investedSold))]

\* the holding written by a partial sell
SoldHolding(existing, quantity, price) ==
  LET newQuantity == RSub(existing.quantity, quantity)
      proportionSold == RDiv(quantity, existing.quantity)
      investedSold == RMul(existing.totalInvested, proportionSold)
  IN  [existing EXCEPT
         !.quantity = newQuantity,
         !.totalInvested = RSub(existing.totalInvested, investedSold),
         !.currentValue = RMul(newQuantity, price),
         !.pnl = RSub(RMul(newQuantity, price),
                      RSub(existing.totalInvested, investedSold))]

executeTrade(type, asset, quantity, currentPortfolio) ==
  LET price == asset.current_price
      total == RMul(quantity, price)
      fee == RDiv(RMul(total, TRADING_FEE_PERCENTAGE), R(100))
      netTotal == IF type = "buy" THEN RAdd(total, fee) ELSE RSub(total, fee)
      trade == [asset |-> asset.id, type |-> type, quantity |-> quantity,
                price |-> price, total |-> total, fee |-> fee,
                netTotal |-> netTotal]
      holdings == currentPortfolio.holdings
      i == FindHolding(holdings, asset.id)
      newBalance == IF type = "buy"
                    THEN RSub(currentPortfolio.balance, netTotal)
                    ELSE RAdd(currentPortfolio.balance, netTotal)
      newHoldings ==
        IF type = "buy"
        THEN IF i > 0
             THEN [holdings EXCEPT
                     ![i] = BoughtHolding(holdings[i], quantity, price,
                                          netTotal)]
             ELSE Append(holdings,
                         NewHolding(asset.id, quantity, price, netTotal))
        ELSE IF i > 0
             THEN IF LeExitThreshold(RSub(holdings[i].quantity, quantity))
                  THEN RemoveAt(holdings, i)
                  ELSE [holdings EXCEPT
                          ![i] = SoldHolding(holdings[i], quantity, price)]
             ELSE holdings
  IN  [trade |-> trade,
       newPortfolio |-> calculatePortfolioValue(newBalance, newHoldings)]

updateHoldingPrices(holdings, currentPrices) ==
  [i \in 1..Len(holdings) |->
     LET holding == holdings[i]
         newPrice == currentPrices[holding.asset]
     IN  IF newPrice = 0 THEN holding
         ELSE [holding EXCEPT
                 !.currentPrice = R(newPrice),
                 !.currentValue = RMul(holding.quantity, R(newPrice)),
                 !.pnl = RSub(RMul(holding.quantity, R(newPrice)),
                              holding.totalInvested)]]

\* the holdings map of calculatePortfolioFromTrades after the given trades,
\* as the sequence of its values in insertion order
RECURSIVE HoldingsMapFromTrades(_)
HoldingsMapFromTrades(allTrades) ==
  IF Len(allTrades) = 0 THEN <<>>
  ELSE LET m == HoldingsMapFromTrades(SubSeq(allTrades, 1, Len(allTrades) - 1))
           trade == allTrades[Len(allTrades)]
           i == FindHolding(m, trade.asset)
       IN  IF trade.type = "buy"
           THEN IF i > 0
                THEN [m EXCEPT
                        ![i].quantity = RAdd(m[i].quantity, trade.quantity),
                        ![i].totalInvested =
                           RAdd(m[i].totalInvested, trade.netTotal)]
                ELSE Append(m, [asset |-> trade.asset,
                                quantity |-> trade.quantity,
                                totalInvested |-> trade.netTotal])
           ELSE IF i > 0
                THEN LET newQuantity == RSub(m[i].quantity, trade.quantity)
                         proportionSold == RDiv(trade.quantity, m[i].quantity)
                         investedSold ==
                           RMul(m[i].totalInvested, proportionSold)
                     IN  IF LeExitThreshold(newQuantity)
                         THEN RemoveAt(m, i)
                         ELSE [m EXCEPT
                                 ![i].quantity = newQuantity,
                                 ![i].totalInvested =
                                    RSub(m[i].totalInvested, investedSold)]
                ELSE m

\* assetPrices is the assets state of the dashboard: asset id -> price, 0 = none
calculatePortfolioFromTrades(currentBalance, allTrades, assetPrices) ==
  LET m == HoldingsMapFromTrades(allTrades)
      holdings ==
        [i \in 1..Len(m) |->
           LET currentPrice == R(assetPrices[m[i].asset])
               currentValue == RMul(m[i].quantity, currentPrice)
           IN  [asset |-> m[i].asset,
                quantity |-> m[i].quantity,
                averageBuyPrice |-> RDiv(m[i].totalInvested, m[i].quantity),
                totalInvested |-> m[i].totalInvested,
                currentPrice |-> currentPrice,
                currentValue |-> currentValue,
                pnl |-> RSub(currentValue, m[i].totalInvested)]]
  IN  calculatePortfolioValue(currentBalance, holdings)

(***************************************************************************)
(* Price service: the module-level cache entry of getMarketPrices.  Times  *)
(* are milliseconds of Date.now(), counted from the mount of the dashboard.*)
(* The data of a fetch is known by the time the fetch completed at.        *)
(***************************************************************************)
CACHE_DURATION == 60000
\* the period of the dashboard's setInterval(loadMarketData, 60 * 1000)
REFRESH_INTERVAL == 60000

\* priceCache = null
NoCache == [set |-> FALSE, data |-> [length |-> 0, fetchedAt |-> 0],
            timestamp |-> 0]

\* the empty list getMarketPrices returns when it has nothing
EmptyList == [length |-> 0, fetchedAt |-> 0]

\* isCacheValid without the age test
isCacheValid_mut(cache, now) == cache.set

isCacheValid(cache, now) ==
  IF ~cache.set THEN FALSE
  ELSE (now - cache.timestamp) < CACHE_DURATION

\* localStorage.getItem(STORAGE_KEY) === null
NoItem == [present |-> FALSE]

\* no call of the price service was made yet, the dashboard is not mounted,
\* nothing is stored
ServiceInit ==
  /\ priceCache = NoCache
  /\ clock = [now |-> 0, mounted |-> FALSE, nextFire |-> 0, fires |-> 0,
              loads |-> 0, failed |-> FALSE]
  /\ requests = {}
  /\ loaded = [source |-> "none"]
  /\ localStorage = NoItem

(***************************************************************************)
(* Inputs of the model                                                     *)
(***************************************************************************)
AssetIds == {"bitcoin", "ethereum"}

\* the asset list of a successful fetch: one price per asset
FeedPrices ==
  { [a \in AssetIds |-> IF a = "bitcoin" THEN b ELSE 50] : b \in {90, 100, 110} }

\* the assets state before the first successful fetch ([] in the source)
NoAssets == [a \in AssetIds |-> 0]

AssetsLength(as) == Cardinality({a \in AssetIds : as[a] # 0})

Asset(as, a) == [id |-> a, current_price |-> R(as[a])]

Form(a, side, margin, leverage, sl, tp) ==
  [asset |-> a, side |-> side, margin |-> R(margin), leverage |-> R(leverage),
   stopLoss |-> sl, takeProfit |-> tp]

\* what the user submits in FuturesTradingForm
FuturesForms ==
  { Form("bitcoin", "LONG", 1000, 10, R(95), R(105)),
    Form("bitcoin", "SHORT", 1000, 10, R(105), R(95)) }

\* what the user submits in TradingForm: asset, type, quantity
TradeForms ==
  { <<"bitcoin", "buy", R(2)>>, <<"bitcoin", "sell", R(1)>>,
    <<"ethereum", "buy", R(1)>> }

(***************************************************************************)
(* TradingDashboard                                                        *)
(*                                                                         *)
(* portfolio, trades, futuresPositions and assets are the component's      *)
(* useState cells.  A setState with an updater function (prev => ...) acts *)
(* on the cell; a setState with a value, and everything a handler or an    *)
(* effect reads, comes from the closure of the render that created it:     *)
(* rendered is the closure of the last committed render, effect the one of *)
(* the render that scheduled the [assets] effect.  effect.phase is         *)
(*   "idle"      nothing scheduled                                         *)
(*   "pending"   assets changed and committed, the effect has not run yet  *)
(*   "forced"    a user event was handled while the effect was pending:    *)
(*               the effect is flushed before the render of that event     *)
(*   "rendering" the effect ran, the render of its updates is scheduled    *)
(* A user event is followed by its render at once; the effect and the      *)
(* render of its updates are tasks of their own, so one user event can     *)
(* come before either of them.                                             *)
(***************************************************************************)
\* the useState initial value of portfolio: the portfolio of the first render,
\* which the [] effect that defines loadMarketData closes over
MountPortfolio ==
  [balance |-> R(INITIAL_BALANCE), holdings |-> <<>>,
   totalInvested |-> R(0), totalValue |-> R(INITIAL_BALANCE),
   totalPnL |-> R(0)]

PositionIds == 1..MaxPositions

\* the values a render closes over
Closure == [portfolio |-> portfolio, futuresPositions |-> futuresPositions,
            assets |-> assets]
ClosureNext == [portfolio |-> portfolio', futuresPositions |-> futuresPositions',
                assets |-> assets']

\* state after the mount effects ran on empty storage (getInitialStorageData)
Init ==
  /\ portfolio = calculatePortfolioFromTrades(R(INITIAL_BALANCE), <<>>, NoAssets)
  /\ trades = <<>>
  /\ futuresPositions = <<>>
  /\ assets = NoAssets
  /\ rendered = [portfolio |-> portfolio, futuresPositions |-> <<>>,
                 assets |-> NoAssets]
  /\ effect = [phase |-> "idle", futuresPositions |-> <<>>, assets |-> NoAssets]
  /\ credited = [id \in PositionIds |-> 0]
  /\ nextId = 1
  /\ ticks = 0
  /\ call = [fn |-> "none"]
  /\ ServiceInit

\* what a user event handler leaves behind: React renders synchronously after
\* a discrete event; a passive effect that was still pending is flushed first
AfterHandler ==
  /\ rendered' = ClosureNext
  /\ effect' = [effect EXCEPT
                  !.phase = IF effect.phase = "pending" THEN "forced"
                            ELSE IF effect.phase = "rendering" THEN "idle"
                            ELSE effect.phase]

HandlerEnabled == effect.phase \in {"idle", "pending", "rendering"}

\* loadMarketData: a fetch of the price feed resolved with marketData; the
\* render that follows commits the new assets and schedules the [assets] effect
LoadMarketData(marketData) ==
  /\ effect.phase = "idle"
  /\ ticks < MaxTicks
  /\ ticks' = ticks + 1
  /\ assets' = marketData
  /\ portfolio' =
       IF AssetsLength(marketData) > 0 /\ Len(MountPortfolio.holdings) > 0
       THEN calculatePortfolioValue(
              MountPortfolio.balance,
              updateHoldingPrices(MountPortfolio.holdings, marketData))
       ELSE portfolio
  /\ UNCHANGED <<trades, futuresPositions, credited, nextId, call, svcvars>>
  /\ rendered' = ClosureNext
  /\ effect' = [phase |-> "pending", futuresPositions |-> futuresPositions,
                assets |-> marketData]

RECURSIVE SumReturn(_)
\* the sum of the amounts the trigger effect adds to the balance
SumReturn(toClose) ==
  IF Len(toClose) = 0 THEN R(0)
  ELSE LET position == Head(toClose).position
           closedPosition == closePosition(position, position.currentPrice,
                                           Head(toClose).reason)
       IN  RAdd(RAdd(position.margin, closedPosition.realizedPnL),
                SumReturn(Tail(toClose)))

ToCloseIds(toClose) == {toClose[i].position.id : i \in 1..Len(toClose)}

\* the effect on [assets]: mark to market, evaluate triggers, close and credit
TriggerEffect ==
  /\ effect.phase \in {"pending", "forced"}
  /\ LET skip == AssetsLength(effect.assets) = 0
                   \/ Len(effect.futuresPositions) = 0
         updatedPositions ==
           updateAllPositions(effect.futuresPositions, effect.assets)
         res == checkPositionTriggers(updatedPositions)
         toClose == res.toClose
         closedPositions ==
           [i \in 1..Len(toClose) |->
              closePosition(toClose[i].position,
                            toClose[i].position.currentPrice,
                            toClose[i].reason)]
     IN  IF skip
         THEN UNCHANGED <<portfolio, futuresPositions, credited>>
         ELSE IF Len(toClose) > 0
         THEN /\ portfolio' =
                   [portfolio EXCEPT
                      !.balance = RAdd(portfolio.balance, SumReturn(toClose))]
              /\ futuresPositions' =
                   SelectSeq(futuresPositions,
                             LAMBDA p : p.id \notin ToCloseIds(toClose))
                   \o closedPositions
              /\ credited' =
                   [id \in PositionIds |->
                      IF id \in ToCloseIds(toClose) THEN credited[id] + 1
                      ELSE credited[id]]
         ELSE /\ futuresPositions' = res.updated
              /\ UNCHANGED <<portfolio, credited>>
  /\ UNCHANGED <<trades, assets, nextId, ticks, call, svcvars>>
  /\ IF effect.phase = "forced"
     THEN /\ rendered' = ClosureNext
          /\ effect' = [effect EXCEPT !.phase = "idle"]
     ELSE /\ rendered' = rendered
          /\ effect' = [effect EXCEPT !.phase = "rendering"]

\* the render scheduled by the state updates of the trigger effect
Render ==
  /\ effect.phase = "rendering"
  /\ rendered' = Closure
  /\ effect' = [effect EXCEPT !.phase = "idle"]
  /\ UNCHANGED <<portfolio, trades, futuresPositions, assets, credited,
                 nextId, ticks, call, svcvars>>

\* HandleTrade that puts the new trade in front of the list
HandleTrade_mut(assetId, type, quantity) ==
  /\ HandlerEnabled
  /\ Len(trades) < MaxTrades
  /\ rendered.assets[assetId] # 0
  /\ LET asset == Asset(rendered.assets, assetId)
         validation == validateTrade(type, asset, quantity,
                                     asset.current_price, rendered.portfolio)
         result == executeTrade(type, asset, quantity, rendered.portfolio)
     IN  /\ validation.valid
         /\ portfolio' = result.newPortfolio
         /\ trades' = <<result.trade>> \o trades
  /\ UNCHANGED <<futuresPositions, assets, credited, nextId, ticks, call, svcvars>>
  /\ AfterHandler

\* TradingForm.handleSubmit followed by handleTrade
HandleTrade(assetId, type, quantity) ==
  /\ HandlerEnabled
  /\ Len(trades) < MaxTrades
  /\ rendered.assets[assetId] # 0
  /\ LET asset == Asset(rendered.assets, assetId)
         validation == validateTrade(type, asset, quantity,
                                     asset.current_price, rendered.portfolio)
         result == executeTrade(type, asset, quantity, rendered.portfolio)
     IN  /\ validation.valid
         /\ portfolio' = result.newPortfolio
         /\ trades' = Append(trades, result.trade)
  /\ UNCHANGED <<futuresPositions, assets, credited, nextId, ticks, call, svcvars>>
  /\ AfterHandler

\* FuturesTradingForm.handleSubmit followed by handleOpenPosition
HandleOpenPosition(formData) ==
  /\ HandlerEnabled
  /\ nextId <= MaxPositions
  /\ rendered.assets[formData.asset] # 0
  /\ LET asset == Asset(rendered.assets, formData.asset)
         validation == validateFuturesOrder(formData, asset,
                                            rendered.portfolio.balance)
         position == openFuturesPosition(formData, asset, nextId)
     IN  /\ validation.valid
         /\ portfolio' = [portfolio EXCEPT
                            !.balance = RSub(portfolio.balance, formData.margin)]
         /\ futuresPositions' = Append(futuresPositions, position)
  /\ nextId' = nextId + 1
  /\ UNCHANGED <<trades, assets, credited, ticks, call, svcvars>>
  /\ AfterHandler

\* PositionCard.handleClose followed by handleClosePosition, for a position of
\* the rendered list futuresPositions.filter(p => p.status === 'OPEN')
HandleClosePosition(i) ==
  /\ HandlerEnabled
  /\ i \in 1..Len(rendered.futuresPositions)
  /\ rendered.futuresPositions[i].status = "OPEN"
  /\ LET position == rendered.futuresPositions[i]
         closedPosition == closePosition(position, position.currentPrice, "USER")
         returnAmount == RAdd(position.margin, closedPosition.realizedPnL)
     IN  /\ portfolio' = [portfolio EXCEPT
                            !.balance = RAdd(portfolio.balance, returnAmount)]
         /\ futuresPositions' =
              [j \in 1..Len(futuresPositions) |->
                 IF futuresPositions[j].id = position.id THEN closedPosition
                 ELSE futuresPositions[j]]
         /\ credited' = [credited EXCEPT ![position.id] = @ + 1]
  /\ UNCHANGED <<trades, assets, nextId, ticks, call, svcvars>>
  /\ AfterHandler

Next ==
  \/ \E marketData \in FeedPrices : LoadMarketData(marketData)
  \/ TriggerEffect
  \/ Render
  \/ \E f \in TradeForms : HandleTrade(f[1], f[2], f[3])
  \/ \E formData \in FuturesForms : HandleOpenPosition(formData)
  \/ \E i \in 1..MaxPositions : HandleClosePosition(i)

Spec == Init /\ [][Next]_vars

\* the dashboard on a feed that moves between two prices, with bitcoin
\* trades and one kind of futures order
LedgerFeed == {marketData \in FeedPrices : marketData["bitcoin"] # 110}
LedgerForms == {formData \in FuturesForms : formData.side = "LONG"}
LedgerTrades == {f \in TradeForms : f[1] = "bitcoin"}

NextLedger ==
  \/ \E marketData \in LedgerFeed : LoadMarketData(marketData)
  \/ TriggerEffect
  \/ Render
  \/ \E f \in LedgerTrades : HandleTrade(f[1], f[2], f[3])
  \/ \E formData \in LedgerForms : HandleOpenPosition(formData)
  \/ \E i \in 1..MaxPositions : HandleClosePosition(i)

SpecLedger == Init /\ [][NextLedger]_vars

\* the dashboard with futures orders that set no stop-loss and no
\* take-profit, so that a position can stay open across a tick
MarkForms ==
  { Form("bitcoin", "LONG", 1000, 10, Undef, Undef),
    Form("bitcoin", "SHORT", 1000, 10, Undef, Undef) }

NextMark ==
  \/ \E marketData \in FeedPrices : LoadMarketData(marketData)
  \/ TriggerEffect
  \/ Render
  \/ \E formData \in MarkForms : HandleOpenPosition(formData)
  \/ \E i \in 1..MaxPositions : HandleClosePosition(i)

SpecMark == Init /\ [][NextMark]_vars

(***************************************************************************)
(* The spot ledger on its own: validated trades executed one after another *)
(* on the portfolio each one returns (TradingForm.handleSubmit, executeTrade)*)
(***************************************************************************)
MaxEngineTrades == 3

EngineBalances == {R(INITIAL_BALANCE), R(200000)}

\* asset, price of the asset when the trade is submitted
EnginePrices ==
  { <<"bitcoin", R(50000)>>, <<"bitcoin", R(60000)>>,
    <<"ethereum", R(100)>>, <<"ethereum", R(250)>> }

EngineQuantities == {R(1), R(2)}

InitEngine ==
  /\ \E b \in EngineBalances : portfolio = calculatePortfolioValue(b, <<>>)
  /\ trades = <<>>
  /\ futuresPositions = <<>>
  /\ assets = NoAssets
  /\ rendered = [portfolio |-> portfolio, futuresPositions |-> <<>>,
                 assets |-> NoAssets]
  /\ effect = [phase |-> "idle", futuresPositions |-> <<>>, assets |-> NoAssets]
  /\ credited = [id \in PositionIds |-> 0]
  /\ nextId = 1
  /\ ticks = 0
  /\ call = [fn |-> "none"]
  /\ ServiceInit

EngineTrade(type, assetId, price, quantity) ==
  /\ Len(trades) < MaxEngineTrades
  /\ LET asset == [id |-> assetId, current_price |-> price]
         validation == validateTrade(type, asset, quantity, price, portfolio)
         result == executeTrade(type, asset, quantity, portfolio)
     IN  /\ validation.valid
         /\ portfolio' = result.newPortfolio
         /\ trades' = Append(trades, result.trade)
  /\ UNCHANGED <<futuresPositions, assets, rendered, effect, credited,
                 nextId, ticks, call, svcvars>>

EngineBuy == \E ap \in EnginePrices, q \in EngineQuantities :
               EngineTrade("buy", ap[1], ap[2], q)

EngineSell == \E ap \in EnginePrices, q \in EngineQuantities :
                EngineTrade("sell", ap[1], ap[2], q)

NextEngine == EngineBuy \/ EngineSell

SpecEngine == InitEngine /\ [][NextEngine]_vars

(***************************************************************************)
(* The spot ledger on quantities around the full-exit threshold: the form  *)
(* takes any quantity > 0 (step="any"), validateTrade asks for no minimum  *)
(***************************************************************************)
DustBalance == R(10)
DustPrice == R(1000)
\* 1e-8, 2e-8 and 3e-8 units
DustQuantities == { Frac(k, EXIT_THRESHOLD_INV) : k \in 1..3 }

InitDust ==
  /\ portfolio = calculatePortfolioValue(DustBalance, <<>>)
  /\ trades = <<>>
  /\ futuresPositions = <<>>
  /\ assets = NoAssets
  /\ rendered = [portfolio |-> portfolio, futuresPositions |-> <<>>,
                 assets |-> NoAssets]
  /\ effect = [phase |-> "idle", futuresPositions |-> <<>>, assets |-> NoAssets]
  /\ credited = [id \in PositionIds |-> 0]
  /\ nextId = 1
  /\ ticks = 0
  /\ call = [fn |-> "none"]
  /\ ServiceInit

DustBuy == \E a \in AssetIds, q \in DustQuantities :
             EngineTrade("buy", a, DustPrice, q)

DustSell == \E a \in AssetIds, q \in DustQuantities :
              EngineTrade("sell", a, DustPrice, q)

NextDust == DustBuy \/ DustSell

SpecDust == InitDust /\ [][NextDust]_vars

(***************************************************************************)
(* The price service under its callers: the dashboard's mount and its      *)
(* 60-second timer (loadMarketData), and MarketList's loadPrices with and  *)
(* without forceRefresh.  A call of getMarketPrices either resolves at     *)
(* once from the cache or leaves a fetch in flight, which resolves at a    *)
(* later time with a response or with a failure.  The timer fires on time. *)
(***************************************************************************)
MaxFirings == 2
MaxListLoads == 1

\* how long a fetch can take, in milliseconds
FeedLatencies == {200, 30000}

\* the record of the call of getMarketPrices that resolved last
Resolved(r, resolvedAt, fetched, ok, source, data, cacheAfter) ==
  [fn |-> "getMarketPrices",
   caller |-> r.caller, byTimer |-> r.byTimer, useCache |-> r.useCache,
   startedAt |-> r.startedAt, cacheAtStart |-> r.cacheAtStart,
   resolvedAt |-> resolvedAt, fetched |-> fetched, ok |-> ok,
   source |-> source, data |-> data,
   cacheBefore |-> priceCache, cacheAfter |-> cacheAfter]

\* setAssets(marketData) of loadMarketData, with where the data came from
Loaded(r, source, data) ==
  IF r.caller = "dashboard"
  THEN [source |-> source, data |-> data, byTimer |-> r.byTimer,
        at |-> clock.now, failedBefore |-> clock.failed]
  ELSE loaded

\* getMarketPrices(useCache) up to its first await; cache is priceCache as
\* the caller left it (loadPrices(true) clears it first)
getMarketPrices(caller, byTimer, useCache, cache) ==
  LET r == [caller |-> caller, byTimer |-> byTimer, useCache |-> useCache,
            startedAt |-> clock.now, cacheAtStart |-> cache]
  IN  /\ priceCache' = cache
      /\ IF useCache /\ isCacheValid(cache, clock.now)
         THEN /\ call' = Resolved(r, clock.now, FALSE, TRUE, "cache",
                                  cache.data, cache)
              /\ loaded' = Loaded(r, "cache", cache.data)
              /\ requests' = requests
         ELSE /\ requests' = requests \cup {r}
              /\ UNCHANGED <<call, loaded>>

\* the [] effect of the dashboard: loadMarketData(), then setInterval
MountDashboard ==
  /\ ~clock.mounted
  /\ clock' = [clock EXCEPT !.mounted = TRUE,
                            !.nextFire = clock.now + REFRESH_INTERVAL]
  /\ getMarketPrices("dashboard", FALSE, TRUE, priceCache)
  /\ UNCHANGED <<portfolio, trades, futuresPositions, assets, rendered,
                 effect, credited, nextId, ticks, localStorage>>

\* the interval timer calls loadMarketData
TimerFire ==
  /\ clock.mounted
  /\ clock.now = clock.nextFire
  /\ clock.fires < MaxFirings
  /\ clock' = [clock EXCEPT !.fires = @ + 1,
                            !.nextFire = @ + REFRESH_INTERVAL]
  /\ getMarketPrices("dashboard", TRUE, TRUE, priceCache)
  /\ UNCHANGED <<portfolio, trades, futuresPositions, assets, rendered,
                 effect, credited, nextId, ticks, localStorage>>

\* MarketList.loadPrices(forceRefresh)
LoadPrices(forceRefresh) ==
  /\ clock.mounted
  /\ clock.loads < MaxListLoads
  /\ clock' = [clock EXCEPT !.loads = @ + 1]
  /\ getMarketPrices("MarketList", FALSE, ~forceRefresh,
                     IF forceRefresh THEN NoCache ELSE priceCache)
  /\ UNCHANGED <<portfolio, trades, futuresPositions, assets, rendered,
                 effect, credited, nextId, ticks, localStorage>>

\* the fetch of r came back with a response: the try block runs to its end
FetchSucceeds(r) ==
  LET data == [length |-> 1, fetchedAt |-> clock.now]
      entry == [set |-> TRUE, data |-> data, timestamp |-> clock.now]
  IN  /\ r \in requests
      /\ (clock.now - r.startedAt) \in FeedLatencies
      /\ priceCache' = entry
      /\ call' = Resolved(r, clock.now, TRUE, TRUE, "fetch", data, entry)
      /\ loaded' = Loaded(r, "fetch", data)
      /\ requests' = requests \ {r}
      /\ UNCHANGED <<portfolio, trades, futuresPositions, assets, rendered,
                     effect, credited, nextId, ticks, clock,
                     localStorage>>

\* FetchFails resolving with the empty list whatever the cache holds
FetchFails_mut(r) ==
  /\ r \in requests
  /\ (clock.now - r.startedAt) \in FeedLatencies
  /\ priceCache' = priceCache
  /\ call' = Resolved(r, clock.now, TRUE, FALSE, "empty", EmptyList, priceCache)
  /\ loaded' = Loaded(r, "empty", EmptyList)
  /\ requests' = requests \ {r}
  /\ clock' = [clock EXCEPT !.failed = TRUE]
  /\ UNCHANGED <<portfolio, trades, futuresPositions, assets, rendered,
                 effect, credited, nextId, ticks, localStorage>>

\* the fetch of r threw (network error, status not ok, malformed payload):
\* the catch block
FetchFails(r) ==
  LET source == IF priceCache.set THEN "stale" ELSE "empty"
      data == IF priceCache.set THEN priceCache.data ELSE EmptyList
  IN  /\ r \in requests
      /\ (clock.now - r.startedAt) \in FeedLatencies
      /\ priceCache' = priceCache
      /\ call' = Resolved(r, clock.now, TRUE, FALSE, source, data, priceCache)
      /\ loaded' = Loaded(r, source, data)
      /\ requests' = requests \ {r}
      /\ clock' = [clock EXCEPT !.failed = TRUE]
      /\ UNCHANGED <<portfolio, trades, futuresPositions, assets, rendered,
                     effect, credited, nextId, ticks, localStorage>>

\* time passes up to the moment a fetch in flight can come back, or up to the
\* next firing of the timer; no fetch stays in flight beyond the latencies
Advance ==
  \E t \in {r.startedAt + d : r \in requests, d \in FeedLatencies}
          \cup {clock.nextFire} :
    /\ clock.mounted
    /\ t > clock.now
    /\ t <= clock.nextFire
    /\ \A r \in requests : \E d \in FeedLatencies : t <= r.startedAt + d
    /\ clock.fires < MaxFirings \/ requests # {}
    /\ clock' = [clock EXCEPT !.now = t]
    /\ UNCHANGED <<portfolio, trades, futuresPositions, assets, rendered,
                   effect, credited, nextId, ticks, call, priceCache,
                   requests, loaded, localStorage>>

NextFeed ==
  \/ MountDashboard
  \/ TimerFire
  \/ \E forceRefresh \in BOOLEAN : LoadPrices(forceRefresh)
  \/ \E r \in requests : FetchSucceeds(r)
  \/ \E r \in requests : FetchFails(r)
  \/ Advance

SpecFeed == Init /\ [][NextFeed]_vars

(***************************************************************************)
(* Signals.  The indicator library is taken by its readings: a call is     *)
(* given the number of candles and what each indicator reports, and the    *)
(* voting, the quality score and the classification are computed from them.*)
(* Lists of strings are kept as sequences of tags.                         *)
(***************************************************************************)
Max(a, b) == IF a >= b THEN a ELSE b
Min(a, b) == IF a <= b THEN a ELSE b

QuickSignal(type, strength, qualityScore, confirmations, warnings) ==
  [type |-> type, strength |-> strength, qualityScore |-> qualityScore,
   confirmations |-> confirmations, warnings |-> warnings]

\* the fast profile; asset = [current_price, price_change_percentage_24h,
\* high_24h, low_24h]
calculateQuickSignal(asset) ==
  LET priceChange24h == IF Truthy(asset.price_change_percentage_24h)
                        THEN asset.price_change_percentage_24h ELSE R(0)
      currentPrice == asset.current_price
      high24h == IF Truthy(asset.high_24h) THEN asset.high_24h
                 ELSE currentPrice
      low24h == IF Truthy(asset.low_24h) THEN asset.low_24h ELSE currentPrice
      range24h == RSub(high24h, low24h)
      positionInRange == IF RLt(R(0), range24h)
                         THEN RDiv(RSub(currentPrice, low24h), range24h)
                         ELSE Frac(1, 2)
      momentum ==
        IF RLt(R(8), priceChange24h) THEN 50
        ELSE IF RLt(R(5), priceChange24h) THEN 40
        ELSE IF RLt(R(3), priceChange24h) THEN 30
        ELSE IF RLt(Frac(3, 2), priceChange24h) THEN 20
        ELSE IF RLt(Frac(1, 2), priceChange24h) THEN 10
        ELSE IF RLt(Frac(1, 10), priceChange24h) THEN 5
        ELSE IF RLt(priceChange24h, R(-8)) THEN -50
        ELSE IF RLt(priceChange24h, R(-5)) THEN -40
        ELSE IF RLt(priceChange24h, R(-3)) THEN -30
        ELSE IF RLt(priceChange24h, Frac(-3, 2)) THEN -20
        ELSE IF RLt(priceChange24h, Frac(-1, 2)) THEN -10
        ELSE IF RLt(priceChange24h, Frac(-1, 10)) THEN -5
        ELSE 0
      position ==
        IF RLt(Frac(90, 100), positionInRange) THEN 15
        ELSE IF RLt(Frac(75, 100), positionInRange) THEN 10
        ELSE IF RLt(Frac(60, 100), positionInRange) THEN 5
        ELSE IF RLt(positionInRange, Frac(10, 100)) THEN -15
        ELSE IF RLt(positionInRange, Frac(25, 100)) THEN -10
        ELSE IF RLt(positionInRange, Frac(40, 100)) THEN -5
        ELSE 0
      score == momentum + position
      strength == Max(0, Min(100, 50 + score))
      baseConfirmations == <<"CHANGE_24H">>
      baseWarnings == <<"BASIC_SIGNAL">>
  IN  IF score >= 50
      THEN QuickSignal("extreme-buy", strength, 40,
                       baseConfirmations \o <<"MOMENTUM">>, baseWarnings)
      ELSE IF score >= 35
      THEN QuickSignal("strong-buy", strength, 35,
                       baseConfirmations \o <<"MOMENTUM">>, baseWarnings)
      ELSE IF score >= 20
      THEN QuickSignal("buy", strength, 30,
                       baseConfirmations \o <<"MOMENTUM">>, baseWarnings)
      ELSE IF score >= 5
      THEN QuickSignal("weak-buy", strength, 25, baseConfirmations,
                       baseWarnings \o <<"WEAK_MOMENTUM">>)
      ELSE IF score <= -50
      THEN QuickSignal("extreme-sell", strength, 40,
                       baseConfirmations \o <<"MOMENTUM">>, baseWarnings)
      ELSE IF score <= -35
      THEN QuickSignal("strong-sell", strength, 35,
                       baseConfirmations \o <<"MOMENTUM">>, baseWarnings)
      ELSE IF score <= -20
      THEN QuickSignal("sell", strength, 30,
                       baseConfirmations \o <<"MOMENTUM">>, baseWarnings)
      ELSE IF score <= -5
      THEN QuickSignal("weak-sell", strength, 25, baseConfirmations,
                       baseWarnings \o <<"WEAK_MOMENTUM">>)
      ELSE QuickSignal("neutral", strength, 30, <<"ONLY_24H_DATA">>,
                       <<"BASIC_SIGNAL_ENABLE_TIMEFRAME">>)

\* what one indicator adds: <<bullish, bearish, warnings>>
TwoOneOutcomes == {<<2, 0, 0>>, <<1, 0, 0>>, <<0, 2, 0>>, <<0, 1, 0>>,
                   <<0, 0, 0>>}
TwoOutcomes == {<<2, 0, 0>>, <<0, 2, 0>>, <<0, 0, 0>>}
OneOutcomes == {<<1, 0, 0>>, <<0, 1, 0>>, <<0, 0, 0>>}
\* the volume ratio: high with the price up, high with the price down,
\* neither, or low ('Vol bajo')
VolumeOutcomes == {<<2, 0, 0>>, <<0, 2, 0>>, <<0, 0, 0>>, <<0, 0, 1>>}

\* the indicators that vote on their own reading, in the order of the code:
\* Stochastic, CCI, Williams %R, ROC, MFI, MACD, Parabolic SAR, Supertrend,
\* market structure, VWAP, Bollinger, volume ratio, OBV, momentum, pattern
ReadingOutcomes ==
  <<TwoOneOutcomes, TwoOneOutcomes, TwoOutcomes, TwoOneOutcomes, TwoOutcomes,
    TwoOneOutcomes, TwoOneOutcomes, TwoOneOutcomes, TwoOneOutcomes,
    OneOutcomes, TwoOneOutcomes, VolumeOutcomes, TwoOutcomes, OneOutcomes,
    TwoOneOutcomes>>

AddVotes(x, y) == <<x[1] + y[1], x[2] + y[2], x[3] + y[3]>>

RECURSIVE VoteTotals(_)
\* the totals the first k of these indicators can add up to
VoteTotals(k) ==
  IF k = 0 THEN {<<0, 0, 0>>}
  ELSE {AddVotes(t, o) : t \in VoteTotals(k - 1), o \in ReadingOutcomes[k]}

IndicatorVotes == VoteTotals(Len(ReadingOutcomes))

\* the vote count of the full profile.  readings = [rsi, currentPrice, ema9,
\* ema21, ema50, priceTrend, rsiTrend, others]; ema50 is null (0 here) below
\* 50 candles; others is the total of the indicators of ReadingOutcomes
CountConfirmations(candles, readings) ==
  LET rsi == readings.rsi
      currentPrice == readings.currentPrice
      ema9 == readings.ema9
      ema21 == readings.ema21
      ema50 == IF candles >= 50 THEN readings.ema50 ELSE 0
      rsiVote == IF rsi < 30 THEN <<2, 0, 0>>
                 ELSE IF rsi < 40 THEN <<1, 0, 0>>
                 ELSE IF rsi > 70 THEN <<0, 2, 0>>
                 ELSE IF rsi > 60 THEN <<0, 1, 0>>
                 ELSE <<0, 0, 0>>
      bullishEMA == currentPrice > ema9 /\ ema9 > ema21
      bearishEMA == currentPrice < ema9 /\ ema9 < ema21
      emaVote == IF bullishEMA THEN <<2, 0, 0>>
                 ELSE IF bearishEMA THEN <<0, 2, 0>>
                 ELSE IF currentPrice > ema9 THEN <<1, 0, 0>>
                 ELSE IF currentPrice < ema9 THEN <<0, 1, 0>>
                 ELSE <<0, 0, 0>>
      ema50Vote == IF ema50 = 0 THEN <<0, 0, 0>>
                   ELSE IF currentPrice > ema50 /\ ema9 > ema50
                   THEN <<1, 0, 0>>
                   ELSE IF currentPrice < ema50 /\ ema9 < ema50
                   THEN <<0, 1, 0>>
                   ELSE <<0, 0, 0>>
      bullishDivergence ==
        readings.priceTrend < 0 /\ readings.rsiTrend > 0 /\ rsi < 40
      bearishDivergence ==
        readings.priceTrend > 0 /\ readings.rsiTrend < 0 /\ rsi > 60
      divergenceVote == <<IF bullishDivergence THEN 2 ELSE 0,
                          IF bearishDivergence THEN 2 ELSE 0, 0>>
      votes == AddVotes(AddVotes(rsiVote, emaVote),
                        AddVotes(AddVotes(ema50Vote, divergenceVote),
                                 readings.others))
      bullishConfirmations == votes[1]
      bearishConfirmations == votes[2]
      lowVolume == IF votes[3] > 0 THEN <<"LOW_VOLUME">> ELSE <<>>
      counterBull ==
        IF /\ bullishConfirmations > bearishConfirmations
           /\ bearishEMA
           /\ ema50 # 0
           /\ currentPrice < ema50
        THEN <<"COUNTER_TREND">> ELSE <<>>
      counterBear ==
        IF /\ bearishConfirmations > bullishConfirmations
           /\ bullishEMA
           /\ ema50 # 0
           /\ currentPrice > ema50
        THEN <<"COUNTER_TREND">> ELSE <<>>
      rsiNeutral == IF rsi > 45 /\ rsi < 55 THEN <<"RSI_NEUTRAL">> ELSE <<>>
  IN  [bullishConfirmations |-> bullishConfirmations,
       bearishConfirmations |-> bearishConfirmations,
       confirmations |-> IF bullishConfirmations + bearishConfirmations > 0
                         THEN <<"VOTES">> ELSE <<>>,
       warnings |-> lowVolume \o counterBull \o counterBear \o rsiNeutral]

\* QualityAndClass without the quality score in the extreme and strong tiers
QualityAndClass_mut(count) ==
  LET bullishConfirmations == count.bullishConfirmations
      bearishConfirmations == count.bearishConfirmations
      confirmations == count.confirmations
      warnings == count.warnings
      totalConfirmations == Max(bullishConfirmations, bearishConfirmations)
      qualityScore ==
        Min(100, Max(0, (totalConfirmations * 6) - (Len(warnings) * 5)))
      netScore == bullishConfirmations - bearishConfirmations
      strength == Max(0, Min(100, 50 + (netScore * 4)))
  IN  IF bullishConfirmations >= 12
      THEN QuickSignal("extreme-buy", strength, qualityScore,
                       confirmations, warnings)
      ELSE IF bullishConfirmations >= 8 /\ bearishConfirmations <= 3
      THEN QuickSignal("strong-buy", strength, qualityScore,
                       confirmations, warnings)
      ELSE IF bullishConfirmations >= 5 /\ bearishConfirmations <= 3
      THEN QuickSignal("buy", strength, Max(35, qualityScore),
                       confirmations, warnings)
      ELSE IF bullishConfirmations >= 3 /\ bearishConfirmations <= 2
      THEN QuickSignal("weak-buy", strength, Max(25, qualityScore),
                       confirmations, warnings)
      ELSE IF bearishConfirmations >= 12
      THEN QuickSignal("extreme-sell", strength, qualityScore,
                       confirmations, warnings)
      ELSE IF bearishConfirmations >= 8 /\ bullishConfirmations <= 3
      THEN QuickSignal("strong-sell", strength, qualityScore,
                       confirmations, warnings)
      ELSE IF bearishConfirmations >= 5 /\ bullishConfirmations <= 3
      THEN QuickSignal("sell", strength, Max(35, qualityScore),
                       confirmations, warnings)
      ELSE IF bearishConfirmations >= 3 /\ bullishConfirmations <= 2
      THEN QuickSignal("weak-sell", strength, Max(25, qualityScore),
                       confirmations, warnings)
      ELSE QuickSignal("neutral", 50, Min(35, qualityScore),
                       IF Len(confirmations) = 0 THEN <<"NO_CLEAR_SIGNALS">>
                       ELSE confirmations,
                       warnings \o <<"INSUFFICIENT_CONFIRMATIONS">>)

\* the quality filters' score and the signal determination of the full
\* profile, from the vote count
QualityAndClass(count) ==
  LET bullishConfirmations == count.bullishConfirmations
      bearishConfirmations == count.bearishConfirmations
      confirmations == count.confirmations
      warnings == count.warnings
      totalConfirmations == Max(bullishConfirmations, bearishConfirmations)
      qualityScore ==
        Min(100, Max(0, (totalConfirmations * 6) - (Len(warnings) * 5)))
      netScore == bullishConfirmations - bearishConfirmations
      strength == Max(0, Min(100, 50 + (netScore * 4)))
  IN  IF bullishConfirmations >= 12 /\ qualityScore >= 70
      THEN QuickSignal("extreme-buy", strength, qualityScore,
                       confirmations, warnings)
      ELSE IF /\ bullishConfirmations >= 8
              /\ bearishConfirmations <= 3
              /\ qualityScore >= 45
      THEN QuickSignal("strong-buy", strength, qualityScore,
                       confirmations, warnings)
      ELSE IF bullishConfirmations >= 5 /\ bearishConfirmations <= 3
      THEN QuickSignal("buy", strength, Max(35, qualityScore),
                       confirmations, warnings)
      ELSE IF bullishConfirmations >= 3 /\ bearishConfirmations <= 2
      THEN QuickSignal("weak-buy", strength, Max(25, qualityScore),
                       confirmations, warnings)
      ELSE IF bearishConfirmations >= 12 /\ qualityScore >= 70
      THEN QuickSignal("extreme-sell", strength, qualityScore,
                       confirmations, warnings)
      ELSE IF /\ bearishConfirmations >= 8
              /\ bullishConfirmations <= 3
              /\ qualityScore >= 45
      THEN QuickSignal("strong-sell", strength, qualityScore,
                       confirmations, warnings)
      ELSE IF bearishConfirmations >= 5 /\ bullishConfirmations <= 3
      THEN QuickSignal("sell", strength, Max(35, qualityScore),
                       confirmations, warnings)
      ELSE IF bearishConfirmations >= 3 /\ bullishConfirmations <= 2
      THEN QuickSignal("weak-sell", strength, Max(25, qualityScore),
                       confirmations, warnings)
      ELSE QuickSignal("neutral", 50, Min(35, qualityScore),
                       IF Len(confirmations) = 0 THEN <<"NO_CLEAR_SIGNALS">>
                       ELSE confirmations,
                       warnings \o <<"INSUFFICIENT_CONFIRMATIONS">>)

\* calculateQuickSignalFromCandles answering a short history with a neutral
\* signal that reports the missing data
calculateQuickSignalFromCandles_mut(candles, readings, asset) ==
  IF candles < 20
  THEN QuickSignal("neutral", 50, 0, <<>>, <<"INSUFFICIENT_DATA">>)
  ELSE QualityAndClass(CountConfirmations(candles, readings))

\* candles is candleData.length, 0 for a missing list as well
calculateQuickSignalFromCandles(candles, readings, asset) ==
  IF candles < 20 THEN calculateQuickSignal(asset)
  ELSE QualityAndClass(CountConfirmations(candles, readings))

\* Math.round of the rational n/d, d > 0
MathRound(n, d) == ((2 * n) + d) \div (2 * d)

\* Probabilities with the remainder taken without the reversal
Probabilities_mut(type, adx) ==
  LET base == IF type = "strong-buy" THEN <<60, 10, 10, 20>>
              ELSE IF type = "buy" THEN <<45, 20, 15, 20>>
              ELSE IF type = "strong-sell" THEN <<10, 60, 10, 20>>
              ELSE IF type = "sell" THEN <<20, 45, 15, 20>>
              ELSE <<25, 25, 20, 30>>
      adjusted ==
        IF adx.adx > 40
        THEN IF adx.diPlus > adx.diMinus
             THEN <<base[1] + 10, base[2] - 5, base[3], base[4] - 5>>
             ELSE <<base[1] - 5, base[2] + 10, base[3], base[4] - 5>>
        ELSE IF adx.adx < 20
        THEN <<base[1] - 7, base[2] - 8, base[3], base[4] + 15>>
        ELSE base
      total == adjusted[1] + adjusted[2] + adjusted[3] + adjusted[4]
      bullishContinuation == MathRound(adjusted[1] * 100, total)
      bearishContinuation == MathRound(adjusted[2] * 100, total)
      reversal == MathRound(adjusted[3] * 100, total)
  IN  [bullishContinuation |-> bullishContinuation,
       bearishContinuation |-> bearishContinuation,
       reversal |-> reversal,
       consolidation |-> 100 - bullishContinuation - bearishContinuation]

\* the scenario probabilities: base by type, adjusted by the ADX, normalised
Probabilities(type, adx) ==
  LET base == IF type = "strong-buy" THEN <<60, 10, 10, 20>>
              ELSE IF type = "buy" THEN <<45, 20, 15, 20>>
              ELSE IF type = "strong-sell" THEN <<10, 60, 10, 20>>
              ELSE IF type = "sell" THEN <<20, 45, 15, 20>>
              ELSE <<25, 25, 20, 30>>
      adjusted ==
        IF adx.adx > 40
        THEN IF adx.diPlus > adx.diMinus
             THEN <<base[1] + 10, base[2] - 5, base[3], base[4] - 5>>
             ELSE <<base[1] - 5, base[2] + 10, base[3], base[4] - 5>>
        ELSE IF adx.adx < 20
        THEN <<base[1] - 7, base[2] - 8, base[3], base[4] + 15>>
        ELSE base
      total == adjusted[1] + adjusted[2] + adjusted[3] + adjusted[4]
      bullishContinuation == MathRound(adjusted[1] * 100, total)
      bearishContinuation == MathRound(adjusted[2] * 100, total)
      reversal == MathRound(adjusted[3] * 100, total)
  IN  [bullishContinuation |-> bullishContinuation,
       bearishContinuation |-> bearishContinuation,
       reversal |-> reversal,
       consolidation |->
         100 - bullishContinuation - bearishContinuation - reversal]

\* the signal returned below 50 candles
emptySignal ==
  [type |-> "neutral", confidence |-> 0, indicators |-> <<>>,
   recommendation |-> "INSUFFICIENT_DATA_50_CANDLES",
   buyVotes |-> 0, sellVotes |-> 0,
   probabilities |-> [bullishContinuation |-> 33, bearishContinuation |-> 33,
                      reversal |-> 17, consolidation |-> 17]]

\* one entry of the indicators list: its signal and what it added to the
\* two vote counters
Indicator(name, signal, weight, buy, sell) ==
  [name |-> name, signal |-> signal, weight |-> weight,
   buy |-> buy, sell |-> sell]

\* readings = [rsi, currentPrice, ema20, ema50, macd, volume, priceChange,
\* adx, candlePattern]; buyVotes and sellVotes are kept in the result
generateAdvancedTradingSignals(candles, readings) ==
  IF candles < 50 THEN emptySignal
  ELSE
  LET rsi == readings.rsi
      currentPrice == readings.currentPrice
      ema20 == readings.ema20
      ema50 == readings.ema50
      macd == readings.macd
      volume == readings.volume
      priceChange == readings.priceChange
      adx == readings.adx
      candlePattern == readings.candlePattern
      rsiIndicator ==
        IF rsi < 30 THEN Indicator("RSI", "buy", 3, 3, 0)
        ELSE IF rsi > 70 THEN Indicator("RSI", "sell", 3, 0, 3)
        ELSE IF rsi < 45 THEN Indicator("RSI", "buy", 3, 1, 0)
        ELSE IF rsi > 55 THEN Indicator("RSI", "sell", 3, 0, 1)
        ELSE Indicator("RSI", "neutral", 3, 0, 0)
      emaIndicator ==
        IF ema20 > ema50 /\ currentPrice > ema20
        THEN Indicator("EMA", "buy", 4, 4, 0)
        ELSE IF ema20 < ema50 /\ currentPrice < ema20
        THEN Indicator("EMA", "sell", 4, 0, 4)
        ELSE IF currentPrice > ema20
        THEN Indicator("EMA", "buy", 4, 2, 0)
        ELSE IF currentPrice < ema20
        THEN Indicator("EMA", "sell", 4, 2, 0)
        ELSE Indicator("EMA", "neutral", 4, 0, 0)
      macdIndicator ==
        IF macd.histogram > 0 /\ macd.macd > macd.signal
        THEN Indicator("MACD", "buy", 3, 3, 0)
        ELSE IF macd.histogram < 0 /\ macd.macd < macd.signal
        THEN Indicator("MACD", "sell", 3, 0, 3)
        ELSE Indicator("MACD", "neutral", 3, 0, 0)
      volumeIndicator ==
        IF volume.isHigh /\ priceChange > 0
        THEN Indicator("VOLUME", "buy", 2, 2, 0)
        ELSE IF volume.isHigh /\ priceChange < 0
        THEN Indicator("VOLUME", "sell", 2, 0, 2)
        ELSE Indicator("VOLUME", "neutral", 2, 0, 0)
      adxIndicator ==
        IF adx.adx > 40 /\ adx.diPlus > adx.diMinus
        THEN Indicator("ADX", "buy", 2, 2, 0)
        ELSE IF adx.adx > 40 /\ adx.diPlus < adx.diMinus
        THEN Indicator("ADX", "sell", 2, 0, 2)
        ELSE IF adx.adx > 25
        THEN IF adx.diPlus > adx.diMinus
             THEN Indicator("ADX", "buy", 2, 1, 0)
             ELSE Indicator("ADX", "sell", 2, 0, 1)
        ELSE Indicator("ADX", "neutral", 2, 0, 0)
      patternIndicator ==
        Indicator("PATTERN", candlePattern, 2,
                  IF candlePattern = "bullish" THEN 2 ELSE 0,
                  IF candlePattern = "bearish" THEN 2 ELSE 0)
      indicators == <<rsiIndicator, emaIndicator, macdIndicator,
                      volumeIndicator, adxIndicator, patternIndicator>>
      buyVotes == rsiIndicator.buy + emaIndicator.buy + macdIndicator.buy
                  + volumeIndicator.buy + adxIndicator.buy
                  + patternIndicator.buy
      sellVotes == rsiIndicator.sell + emaIndicator.sell + macdIndicator.sell
                   + volumeIndicator.sell + adxIndicator.sell
                   + patternIndicator.sell
      totalVotes == buyVotes + sellVotes
      netVotes == buyVotes - sellVotes
      type == IF netVotes >= 6 THEN "strong-buy"
              ELSE IF netVotes >= 3 THEN "buy"
              ELSE IF netVotes <= -6 THEN "strong-sell"
              ELSE IF netVotes <= -3 THEN "sell"
              ELSE "neutral"
  IN  [type |-> type,
       confidence |-> IF totalVotes > 0
                      THEN MathRound(Abs(netVotes) * 100, totalVotes) ELSE 0,
       indicators |-> indicators,
       recommendation |-> type,
       buyVotes |-> buyVotes, sellVotes |-> sellVotes,
       probabilities |-> Probabilities(type, adx)]

(***************************************************************************)
(* The validators and the trigger evaluation as functions of their inputs: *)
(* one call per behaviour, recorded with its arguments and its result      *)
(***************************************************************************)
FnSides == {"LONG", "SHORT"}
FnMargins == {R(5), R(1000), R(20000)}
FnLeverages == {Frac(1, 2), R(1), R(10), R(100), R(101)}
FnStops == {Undef, R(85), R(91), R(95), R(100), R(105), R(120)}
FnTargets == {Undef, R(95), R(100), R(105)}
\* the entry price of the orders and positions given to the functions
FnEntry == R(100)
FnTickPrices == {80, 90, 91, 95, 100, 105, 109, 110, 120}

FnForms ==
  { [asset |-> "bitcoin", side |-> sd, margin |-> m, leverage |-> l,
     stopLoss |-> sl, takeProfit |-> tp] :
      sd \in FnSides, m \in FnMargins, l \in FnLeverages,
      sl \in FnStops, tp \in FnTargets }

CallValidateFuturesOrder ==
  \E formData \in FnForms :
    LET asset == [id |-> "bitcoin", current_price |-> FnEntry]
    IN  /\ call.fn = "none"
        /\ call' = [fn |-> "validateFuturesOrder",
                    formData |-> formData,
                    asset |-> asset,
                    availableBalance |-> portfolio.balance,
                    result |-> validateFuturesOrder(formData, asset,
                                                    portfolio.balance)]
        /\ UNCHANGED <<portfolio, trades, futuresPositions, assets, rendered,
                       effect, credited, nextId, ticks, svcvars>>

\* the second position of a two-position list
FnOtherForms ==
  { Form("bitcoin", "LONG", 1000, 10, R(95), R(105)),
    Form("bitcoin", "SHORT", 1000, 10, R(105), R(95)) }

\* positions as the dashboard holds them on a tick: opened at FnEntry (or read
\* from storage, which validates neither stop nor target) and marked to the
\* tick's price by updateAllPositions
FnPositionLists(price) ==
  LET asset == [id |-> "bitcoin", current_price |-> FnEntry]
      priceMap == [a \in AssetIds |-> IF a = "bitcoin" THEN price ELSE 0]
      firsts == { openFuturesPosition(f, asset, 1) :
                    f \in {g \in FnForms : g.margin = R(1000)
                                           /\ g.leverage \in {R(10), R(100)}} }
      seconds == { openFuturesPosition(f, asset, 2) : f \in FnOtherForms }
  IN  { updateAllPositions(<<p>>, priceMap) : p \in firsts }
      \cup { updateAllPositions(<<p, q>>, priceMap) :
               p \in firsts, q \in seconds }

CallCheckPositionTriggers ==
  \E price \in FnTickPrices :
    \E positions \in FnPositionLists(price) :
      /\ call.fn = "none"
      /\ call' = [fn |-> "checkPositionTriggers",
                  positions |-> positions,
                  result |-> checkPositionTriggers(positions)]
      /\ UNCHANGED <<portfolio, trades, futuresPositions, assets, rendered,
                     effect, credited, nextId, ticks, svcvars>>

FnTradeBalances == {R(5), R(10), Frac(1001, 100), R(15), R(100)}
FnTradePrices == {R(0), R(10), R(20)}
FnTradeQuantities == {R(0), R(1), R(2), R(3)}

\* the portfolios validateTrade is given: no holding, or one holding bought
\* by executeTrade
FnPortfolios ==
  { calculatePortfolioValue(b, <<>>) : b \in FnTradeBalances }
  \cup { executeTrade("buy", [id |-> "bitcoin", current_price |-> R(10)], q,
                      calculatePortfolioValue(R(100), <<>>)).newPortfolio :
           q \in {R(1), R(2)} }

CallValidateTrade ==
  \E type \in {"buy", "sell"}, a \in AssetIds, q \in FnTradeQuantities,
     price \in FnTradePrices, pf \in FnPortfolios :
    /\ call.fn = "none"
    /\ call' = [fn |-> "validateTrade",
                type |-> type, asset |-> a, quantity |-> q, price |-> price,
                portfolio |-> pf,
                result |-> validateTrade(type, [id |-> a,
                                                current_price |-> price],
                                         q, price, pf)]
    /\ UNCHANGED <<portfolio, trades, futuresPositions, assets, rendered,
                   effect, credited, nextId, ticks, svcvars>>

\* the orders opened for the calls below: the form lets them through
\* (validateFuturesOrder) on the balance of a new account
FnOpenLeverages == {R(1), R(2), R(3), R(10), R(25), R(100)}
FnOpenAssets == { [id |-> "bitcoin", current_price |-> R(100)],
                  [id |-> "bitcoin", current_price |-> R(50000)] }
CallOpenFuturesPosition ==
  \E sd \in FnSides, l \in FnOpenLeverages, asset \in FnOpenAssets :
    LET formData == [asset |-> asset.id, side |-> sd, margin |-> R(1000),
                     leverage |-> l, stopLoss |-> Undef, takeProfit |-> Undef]
    IN  /\ call.fn = "none"
        /\ validateFuturesOrder(formData, asset, portfolio.balance).valid
        /\ call' = [fn |-> "openFuturesPosition",
                    formData |-> formData,
                    asset |-> asset,
                    result |-> openFuturesPosition(formData, asset, 1)]
        /\ UNCHANGED <<portfolio, trades, futuresPositions, assets, rendered,
                       effect, credited, nextId, ticks, svcvars>>

\* prices of a later tick, as fractions of the entry price
FnMarkFactors == {Frac(9, 10), Frac(91, 100), R(1), Frac(109, 100),
                  Frac(11, 10)}

\* a tick on the position just opened: updatePositionPnL, then the trigger
\* evaluation of checkPositionTriggers
CallUpdatePositionPnL ==
  \E k \in FnMarkFactors :
    LET position == call.result
        currentPrice == RMul(position.entryPrice, k)
        updated == updatePositionPnL(position, currentPrice)
    IN  /\ call.fn = "openFuturesPosition"
        /\ call' = [fn |-> "updatePositionPnL",
                    position |-> position,
                    currentPrice |-> currentPrice,
                    result |-> updated,
                    triggers |-> checkPositionTriggers(<<updated>>)]
        /\ UNCHANGED <<portfolio, trades, futuresPositions, assets, rendered,
                       effect, credited, nextId, ticks, svcvars>>

\* funding fees of the closed position: 0 as openFuturesPosition sets them,
\* or an amount read back from stored data
FnFundingFees == {R(0), R(3)}
FnCloseReasons == {"USER", "STOP_LOSS", "TAKE_PROFIT", "LIQUIDATION"}

CallClosePosition ==
  \E ff \in FnFundingFees, k \in FnMarkFactors, reason \in FnCloseReasons :
    LET position == [call.result EXCEPT !.fundingFees = ff]
        closePrice == RMul(position.entryPrice, k)
    IN  /\ call.fn = "openFuturesPosition"
        /\ call' = [fn |-> "closePosition",
                    position |-> position,
                    closePrice |-> closePrice,
                    reason |-> reason,
                    result |-> closePosition(position, closePrice, reason)]
        /\ UNCHANGED <<portfolio, trades, futuresPositions, assets, rendered,
                       effect, credited, nextId, ticks, svcvars>>

\* executeTrade called on what the caller passes, with the answer
\* validateTrade gives for the same arguments
CallExecuteTrade ==
  /\ call.fn = "none"
  /\ \E type \in {"buy", "sell"}, a \in AssetIds, q \in {R(1), R(2), R(3)},
       price \in {R(10), R(20)}, pf \in FnPortfolios :
       LET asset == [id |-> a, current_price |-> price]
       IN  call' = [fn |-> "executeTrade",
                    type |-> type, asset |-> a, quantity |-> q,
                    price |-> price, portfolio |-> pf,
                    validation |-> validateTrade(type, asset, q, price, pf),
                    result |-> executeTrade(type, asset, q, pf)]
  /\ UNCHANGED <<portfolio, trades, futuresPositions, assets, rendered,
                 effect, credited, nextId, ticks, svcvars>>

NextFn ==
  \/ CallExecuteTrade
  \/ CallValidateFuturesOrder
  \/ CallCheckPositionTriggers
  \/ CallValidateTrade
  \/ CallOpenFuturesPosition
  \/ CallUpdatePositionPnL
  \/ CallClosePosition

SpecFn == Init /\ [][NextFn]_vars

(***************************************************************************)
(* The signal aggregators as functions: one call is made and recorded in   *)
(* `call`.  The full profile is recorded with its vote count.              *)
(***************************************************************************)
SigCandles == {0, 19, 20, 50}
SigChanges == {R(-9), R(-6), R(-4), R(-2), R(-1), R(0), Frac(1, 5), R(1),
               R(2), R(4), R(6), R(9)}
SigPrices == {R(91), R(96), R(100), R(104), R(109)}
SigAssets ==
  {[current_price |-> p, price_change_percentage_24h |-> c,
    high_24h |-> R(110), low_24h |-> R(90)] :
     p \in SigPrices, c \in SigChanges}
\* the snapshot passed along with a candle history
SigFlatAsset ==
  [current_price |-> R(100), price_change_percentage_24h |-> R(0),
   high_24h |-> R(110), low_24h |-> R(90)]
SigRsi == {25, 35, 50, 65, 75}
SigTrends == {<<-1, 1>>, <<1, -1>>, <<0, 0>>}
SigMacd == {[histogram |-> 1, macd |-> 2, signal |-> 1],
            [histogram |-> -1, macd |-> 1, signal |-> 2],
            [histogram |-> 0, macd |-> 1, signal |-> 1]}
SigVolumes == {[isHigh |-> TRUE, ratio |-> R(2)],
               [isHigh |-> FALSE, ratio |-> R(1)],
               [isHigh |-> FALSE, ratio |-> Frac(1, 2)]}
SigAdx == {[adx |-> a, diPlus |-> d[1], diMinus |-> d[2]] :
             a \in {15, 22, 30, 45},
             d \in {<<30, 20>>, <<20, 30>>, <<25, 25>>}}

\* below 20 candles the snapshot of the asset decides
CallQuickSignalFewCandles ==
  /\ call.fn = "none"
  /\ \E candles \in {n \in SigCandles : n < 20}, asset \in SigAssets :
    /\ call' = [fn |-> "calculateQuickSignalFromCandles",
                candles |-> candles, asset |-> asset,
                result |-> calculateQuickSignalFromCandles(
                             candles, [rsi |-> 50], asset)]
    /\ UNCHANGED <<portfolio, trades, futuresPositions, assets, rendered,
                   effect, credited, nextId, ticks, svcvars>>

CallQuickSignalFromCandles ==
  /\ call.fn = "none"
  /\ \E candles \in {n \in SigCandles : n >= 20}, rsi \in SigRsi,
       ema9 \in {10, 20, 30}, ema21 \in {5, 35}, ema50 \in {0, 4, 40},
       trend \in SigTrends, others \in IndicatorVotes :
    LET readings == [rsi |-> rsi, currentPrice |-> 20, ema9 |-> ema9,
                     ema21 |-> ema21, ema50 |-> ema50,
                     priceTrend |-> trend[1], rsiTrend |-> trend[2],
                     others |-> others]
        count == CountConfirmations(candles, readings)
        asset == SigFlatAsset
    IN  /\ (ema50 = 0) <=> (candles < 50)
        /\ call' = [fn |-> "calculateQuickSignalFromCandles",
                    candles |-> candles, asset |-> asset,
                    bullishConfirmations |-> count.bullishConfirmations,
                    bearishConfirmations |-> count.bearishConfirmations,
                    warnings |-> count.warnings,
                    result |-> calculateQuickSignalFromCandles(
                                 candles, readings, asset)]
        /\ UNCHANGED <<portfolio, trades, futuresPositions, assets,
                       rendered, effect, credited, nextId, ticks, svcvars>>

CallGenerateAdvancedTradingSignals ==
  /\ call.fn = "none"
  /\ \E candles \in SigCandles, rsi \in {25, 40, 50, 60, 75},
     ema20 \in {10, 20, 30}, ema50 \in {5, 35}, macd \in SigMacd,
     volume \in SigVolumes, priceChange \in {-1, 0, 1}, adx \in SigAdx,
     candlePattern \in {"bullish", "bearish", "neutral"} :
    LET readings == [rsi |-> rsi, currentPrice |-> 20, ema20 |-> ema20,
                     ema50 |-> ema50, macd |-> macd, volume |-> volume,
                     priceChange |-> priceChange, adx |-> adx,
                     candlePattern |-> candlePattern]
    IN  /\ call' = [fn |-> "generateAdvancedTradingSignals",
                    candles |-> candles, adx |-> adx,
                    result |-> generateAdvancedTradingSignals(candles,
                                                              readings)]
        /\ UNCHANGED <<portfolio, trades, futuresPositions, assets,
                       rendered, effect, credited, nextId, ticks, svcvars>>

NextSignal ==
  \/ CallQuickSignalFewCandles
  \/ CallQuickSignalFromCandles
  \/ CallGenerateAdvancedTradingSignals

SpecSignal == Init /\ [][NextSignal]_vars

(***************************************************************************)
(* Candles.  The series of usePriceHistory is kept in `call`: it is        *)
(* generated once and then updated with each new price.  Math.random() is  *)
(* a choice among a few values of [0, 1), Date.now() a clock in seconds.   *)
(***************************************************************************)
RMax(a, b) == IF RLe(b, a) THEN a ELSE b
RMin(a, b) == IF RLe(a, b) THEN a ELSE b

Candle(time, open, high, low, close) ==
  [time |-> time, open |-> open, high |-> high, low |-> low, close |-> close]

\* the draws of Math.random(): for the change, the high and the low
RandomDraws ==
  {<<c, h, l>> : c \in {R(0), Frac(1, 2), Frac(3, 4)},
                 h \in {R(0), Frac(1, 2)}, l \in {R(0), Frac(1, 2)}}

RECURSIVE GenerateFrom(_, _, _, _, _)
\* the loop of generateCandlestickData from index i down to 0
GenerateFrom(currentPrice, i, timeframeSeconds, volatility, now) ==
  UNION {
    LET change == RMul(RMul(RSub(r[1], Frac(1, 2)), R(2)), volatility)
        open == currentPrice
        highChange == RMul(r[2], volatility)
        lowChange == RMul(r[3], volatility)
        close == RMul(open, RAdd(R(1), change))
        high == RMul(RMax(open, close), RAdd(R(1), highChange))
        low == RMul(RMin(open, close), RSub(R(1), lowChange))
        candle == Candle(now - (i * timeframeSeconds), open, high, low, close)
    IN  IF i = 0 THEN {<<candle>>}
        ELSE {<<candle>> \o rest :
                rest \in GenerateFrom(close, i - 1, timeframeSeconds,
                                      volatility, now)}
    : r \in RandomDraws}

\* the series generateCandlestickData can return
generateCandlestickData(basePrice, periods, timeframe, volatility, now) ==
  GenerateFrom(basePrice, periods, timeframe * 60, volatility, now)

updateCandlestickData(existingData, newPrice, timeframe, now) ==
  IF Len(existingData) = 0 THEN existingData
  ELSE
  LET lastCandle == existingData[Len(existingData)]
      timeframeSeconds == timeframe * 60
  IN  IF now - lastCandle.time < timeframeSeconds
      THEN [existingData EXCEPT ![Len(existingData)] =
              [lastCandle EXCEPT !.close = newPrice,
                                 !.high = RMax(lastCandle.high, newPrice),
                                 !.low = RMin(lastCandle.low, newPrice)]]
      ELSE Append(existingData,
                  Candle(now, lastCandle.close, newPrice, newPrice, newPrice))

MaxCandleUpdates == 2

CandlePrices == {R(98), R(100), R(103)}
\* seconds between two prices
CandleSteps == {60, 300}

\* the fallback of generateData: a simulated series of periods + 1 candles
GenerateData ==
  /\ call.fn = "none"
  /\ \E candles \in generateCandlestickData(R(100), 1, 5, Frac(2, 100), 1000) :
       call' = [fn |-> "generateCandlestickData", data |-> candles,
                now |-> 1000, updates |-> 0, appended |-> FALSE]
  /\ UNCHANGED <<portfolio, trades, futuresPositions, assets, rendered,
                 effect, credited, nextId, ticks, svcvars>>

UpdatePrice ==
  /\ call.fn \in {"generateCandlestickData", "updateCandlestickData"}
  /\ call.updates < MaxCandleUpdates
  /\ \E newPrice \in CandlePrices, step \in CandleSteps :
       LET now == call.now + step
           data == updateCandlestickData(call.data, newPrice, 5, now)
       IN  call' = [fn |-> "updateCandlestickData", data |-> data,
                    now |-> now, updates |-> call.updates + 1,
                    appended |-> Len(data) > Len(call.data)]
  /\ UNCHANGED <<portfolio, trades, futuresPositions, assets, rendered,
                 effect, credited, nextId, ticks, svcvars>>

NextCandle == GenerateData \/ UpdatePrice

SpecCandle == Init /\ [][NextCandle]_vars

(***************************************************************************)
(* The storage service                                                     *)
(***************************************************************************)
\* the values a property of the stored object can have: a number, an array,
\* or undefined
JNumber(x) == [type |-> "number", num |-> x, arr |-> <<>>]

JArray(s) == [type |-> "array", num |-> R(0), arr |-> s]

JUndefined == [type |-> "undefined", num |-> R(0), arr |-> <<>>]

StorageKeys == {"balance", "trades", "futuresPositions", "initialBalance"}

\* JSON.stringify of an object: a property whose value is undefined is left
\* out; numbers and arrays are written as they are
Stringify(data) ==
  [present |-> TRUE,
   keys |-> {k \in StorageKeys : data[k].type # "undefined"},
   value |-> [k \in StorageKeys |->
                IF data[k].type # "undefined" THEN data[k] ELSE JUndefined]]

\* JSON.parse: reading a property the text does not have gives undefined
Parse(item) ==
  [k \in StorageKeys |-> IF k \in item.keys THEN item.value[k] ELSE JUndefined]

StorageData(balance, trs, positions, initialBalance) ==
  [balance |-> balance, trades |-> trs, futuresPositions |-> positions,
   initialBalance |-> initialBalance]

\* saveToStorage(balance, trades, futuresPositions, initialBalance): the item
\* it leaves in localStorage; an argument the caller does not pass is undefined
saveToStorage(balance, trs, positions, initialBalance) ==
  Stringify(StorageData(balance, trs, positions, initialBalance))

getInitialStorageData ==
  StorageData(JNumber(R(INITIAL_BALANCE)), JArray(<<>>), JArray(<<>>),
              JNumber(R(INITIAL_BALANCE)))

\* the storage service's validateTrade
validateStoredTrade(trade) == trade.type \in {"buy", "sell"}

\* !data.futuresPositions
Falsy(v) == v.type = "undefined" \/ (v.type = "number" /\ v.num = R(0))

\* what validateStorageData leaves in data: futuresPositions defaults to []
DefaultedStorageData(data) ==
  IF /\ data.balance.type = "number"
     /\ data.trades.type = "array"
     /\ data.initialBalance.type = "number"
     /\ Falsy(data.futuresPositions)
  THEN [data EXCEPT !.futuresPositions = JArray(<<>>)]
  ELSE data

validateStorageData(data) ==
  /\ data.balance.type = "number"
  /\ data.trades.type = "array"
  /\ data.initialBalance.type = "number"
  /\ DefaultedStorageData(data).futuresPositions.type = "array"
  /\ \A i \in 1..Len(data.trades.arr) : validateStoredTrade(data.trades.arr[i])
  /\ \A i \in 1..Len(DefaultedStorageData(data).futuresPositions.arr) :
       DefaultedStorageData(data).futuresPositions.arr[i].id \in PositionIds

loadFromStorage(item) ==
  IF ~item.present THEN getInitialStorageData
  ELSE IF ~validateStorageData(Parse(item)) THEN getInitialStorageData
  ELSE DefaultedStorageData(Parse(item))

exportData(item) == Stringify(loadFromStorage(item))

\* importData(jsonString) with item in localStorage: what it returns and the
\* item it leaves; it calls saveToStorage(data.balance, data.trades,
\* data.initialBalance), three arguments for four parameters
importData(jsonString, item) ==
  LET data == Parse(jsonString)
  IN  IF ~validateStorageData(data) THEN [ok |-> FALSE, item |-> item]
      ELSE [ok |-> TRUE,
            item |-> saveToStorage(data.balance, data.trades,
                                   data.initialBalance, JUndefined)]

\* the trade lists, position lists and balances the dashboard saves
StoredTrades ==
  LET pf == MountPortfolio
      t1 == executeTrade("buy", [id |-> "bitcoin", current_price |-> R(10)],
                         R(2), pf)
      t2 == executeTrade("sell", [id |-> "bitcoin", current_price |-> R(20)],
                         R(1), t1.newPortfolio)
  IN  {<<>>, <<t1.trade>>, <<t1.trade, t2.trade>>}

StoredPositions ==
  LET p == openFuturesPosition(
             Form("bitcoin", "LONG", 1000, 10, Undef, Undef),
             [id |-> "bitcoin", current_price |-> R(100)], 1)
  IN  {<<>>, <<p>>}

StoredBalances == {R(INITIAL_BALANCE), R(8995), Frac(99799, 10), R(12000)}

StoredInitialBalances == {R(INITIAL_BALANCE), R(200000)}

\* the dashboard's save effect: saveToStorage(portfolio.balance, trades,
\* futuresPositions, initialBalance)
SaveToStorage ==
  /\ call.fn = "none"
  /\ \E balance \in StoredBalances, trs \in StoredTrades,
       positions \in StoredPositions, initialBalance \in StoredInitialBalances :
       localStorage' = saveToStorage(JNumber(balance), JArray(trs),
                                     JArray(positions), JNumber(initialBalance))
  /\ UNCHANGED <<portfolio, trades, futuresPositions, assets, rendered,
                 effect, credited, nextId, ticks, call, priceCache, clock,
                 requests, loaded>>

\* an item without futuresPositions, as versions before futures wrote it
SaveLegacyItem ==
  /\ call.fn = "none"
  /\ \E balance \in StoredBalances, trs \in StoredTrades :
       localStorage' = saveToStorage(JNumber(balance), JArray(trs),
                                     JUndefined, JNumber(R(INITIAL_BALANCE)))
  /\ UNCHANGED <<portfolio, trades, futuresPositions, assets, rendered,
                 effect, credited, nextId, ticks, call, priceCache, clock,
                 requests, loaded>>

\* importData(exportData()), with loadFromStorage() before and after
ImportExported ==
  /\ call.fn = "none"
  /\ localStorage' = importData(exportData(localStorage), localStorage).item
  /\ call' = [fn |-> "importData",
              stored |-> localStorage,
              before |-> loadFromStorage(localStorage),
              result |-> importData(exportData(localStorage), localStorage).ok,
              after |-> loadFromStorage(localStorage')]
  /\ UNCHANGED <<portfolio, trades, futuresPositions, assets, rendered,
                 effect, credited, nextId, ticks, priceCache, clock,
                 requests, loaded>>

NextStorage == SaveToStorage \/ SaveLegacyItem \/ ImportExported

SpecStorage == Init /\ [][NextStorage]_vars


(***************************************************************************)
(* Claims                                                                  *)
(***************************************************************************)
\* C1: across any interleaving of trigger evaluation and user close actions,
\* margin + realizedPnL of a futures position is credited to the balance at
\* most once.
C1_CreditedAtMostOnce == \A id \in PositionIds : credited[id] <= 1

PositionById(positions, id) ==
  CHOOSE p \in {positions[i] : i \in 1..Len(positions)} : p.id = id

HasPosition(positions, id) == \E i \in 1..Len(positions) : positions[i].id = id

\* C2: a position transitions exactly once from OPEN to CLOSED or LIQUIDATED;
\* once CLOSED or LIQUIDATED no later tick, trigger evaluation or close
\* request changes any of its fields.
C2_ClosedIsImmutable ==
  [][\A i \in 1..Len(futuresPositions) :
       futuresPositions[i].status # "OPEN"
         => /\ HasPosition(futuresPositions', futuresPositions[i].id)
            /\ PositionById(futuresPositions', futuresPositions[i].id)
                 = futuresPositions[i]]_vars

\* what the claims say of a position, from its fields
CrossedLiquidation(p) ==
  IF p.side = "LONG" THEN RLe(p.currentPrice, p.liquidationPrice)
  ELSE RLe(p.liquidationPrice, p.currentPrice)

CrossedStop(p) ==
  /\ Defined(p.stopLoss)
  /\ IF p.side = "LONG" THEN RLe(p.currentPrice, p.stopLoss)
     ELSE RLe(p.stopLoss, p.currentPrice)

CrossedTarget(p) ==
  /\ Defined(p.takeProfit)
  /\ IF p.side = "LONG" THEN RLe(p.takeProfit, p.currentPrice)
     ELSE RLe(p.currentPrice, p.takeProfit)

ReasonsFor(toClose, id) ==
  {toClose[i].reason : i \in {j \in 1..Len(toClose) : toClose[j].position.id = id}}

\* C3: trigger evaluation uses a strict priority: an OPEN position past its
\* liquidation price is reported with reason LIQUIDATION and nothing else,
\* STOP_LOSS is reported only if liquidation does not apply, TAKE_PROFIT only
\* if neither applies, and a position is reported at most once per tick.
C3_TriggerPriority ==
  call.fn = "checkPositionTriggers" =>
    \A k \in 1..Len(call.positions) :
      LET p == call.positions[k]
          toClose == call.result.toClose
          rs == ReasonsFor(toClose, p.id)
      IN  p.status = "OPEN" =>
            /\ Cardinality({j \in 1..Len(toClose) :
                              toClose[j].position.id = p.id}) <= 1
            /\ CrossedLiquidation(p) => rs = {"LIQUIDATION"}
            /\ "STOP_LOSS" \in rs => ~CrossedLiquidation(p) /\ CrossedStop(p)
            /\ "TAKE_PROFIT" \in rs =>
                 /\ ~CrossedLiquidation(p)
                 /\ ~CrossedStop(p)
                 /\ CrossedTarget(p)

\* a position past both its liquidation price and its stop-loss was evaluated
C3_Witness ==
  /\ call.fn = "checkPositionTriggers"
  /\ \E k \in 1..Len(call.positions) :
       /\ call.positions[k].status = "OPEN"
       /\ CrossedLiquidation(call.positions[k])
       /\ CrossedStop(call.positions[k])
       /\ ReasonsFor(call.result.toClose, call.positions[k].id)
            = {"LIQUIDATION"}

\* C4 as claimed: validateFuturesOrder returns valid: false for every LONG
\* order whose stop-loss is not strictly below the entry price and strictly
\* above the liquidation price, and for every SHORT order whose stop-loss is
\* not above the entry price.
C4_StopLossBetweenLiquidationAndEntry ==
  (call.fn = "validateFuturesOrder" /\ Defined(call.formData.stopLoss)) =>
    LET sl == call.formData.stopLoss
        entry == call.asset.current_price
        liq == calculateLiquidationPrice(call.formData.side, entry,
                                         call.formData.leverage)
    IN  /\ (call.formData.side = "LONG" /\ ~(RLt(liq, sl) /\ RLt(sl, entry)))
             => ~call.result.valid
        /\ (call.formData.side = "SHORT" /\ ~RLt(entry, sl))
             => ~call.result.valid

\* C4 as amended: validateFuturesOrder returns valid: false for every LONG
\* order whose stop-loss is not strictly below the entry price and for every
\* SHORT order whose stop-loss is not strictly above the entry price.
C4_StopLossWrongSideRejected ==
  (call.fn = "validateFuturesOrder" /\ Defined(call.formData.stopLoss)) =>
    LET sl == call.formData.stopLoss
        entry == call.asset.current_price
    IN  /\ (call.formData.side = "LONG" /\ ~RLt(sl, entry))
             => ~call.result.valid
        /\ (call.formData.side = "SHORT" /\ ~RLt(entry, sl))
             => ~call.result.valid

\* an order that fails for its stop-loss alone: LONG with the stop at entry
C4_Witness ==
  /\ call.fn = "validateFuturesOrder"
  /\ call.formData.side = "LONG"
  /\ call.formData.stopLoss = call.asset.current_price
  /\ call.result.error = "STOP_LOSS_LONG"

BitcoinAt(price) == [id |-> "bitcoin", current_price |-> R(price)]

HoldingsOf(pf, assetId) ==
  {pf.holdings[i] : i \in {j \in 1..Len(pf.holdings) :
                             pf.holdings[j].asset = assetId}}

\* C5: after a buy of 1 unit at 50,000 followed by a buy of 1 unit at 60,000
\* of the same asset on a portfolio with no prior holding of it, the holding
\* has quantity 2 and averageBuyPrice exactly 55,000.
C5_AverageOfTwoBuys ==
  (/\ Len(trades) = 2
   /\ \A i \in 1..2 : /\ trades[i].asset = "bitcoin"
                      /\ trades[i].type = "buy"
                      /\ trades[i].quantity = R(1)
   /\ trades[1].price = R(50000)
   /\ trades[2].price = R(60000))
  => \E h \in HoldingsOf(portfolio, "bitcoin") :
       h.quantity = R(2) /\ h.averageBuyPrice = R(55000)

\* the rounding tolerance of the claims, relative to the amount compared
RoundingTolerance == Frac(1, 10000)

ApproxEq(a, b) == RLe(RAbs(RSub(a, b)), RMul(RAbs(b), RoundingTolerance))

\* C6: after any sequence of executed buys and sells, every holding with
\* quantity > 0 has averageBuyPrice = totalInvested / quantity, up to
\* rounding tolerance.
C6_AverageIsInvestedOverQuantity ==
  \A i \in 1..Len(portfolio.holdings) :
    LET h == portfolio.holdings[i]
    IN  RLt(R(0), h.quantity) =>
          ApproxEq(RMul(h.averageBuyPrice, h.quantity), h.totalInvested)

\* C7: the holdings obtained by replaying the recorded trades have, per
\* asset, the same quantity, totalInvested and averageBuyPrice as the
\* holdings executeTrade maintains incrementally.
C7_ReplayEqualsIncremental ==
  LET replayed == calculatePortfolioFromTrades(portfolio.balance, trades, assets)
  IN  \A a \in AssetIds :
        /\ Cardinality(HoldingsOf(replayed, a))
             = Cardinality(HoldingsOf(portfolio, a))
        /\ \A h \in HoldingsOf(portfolio, a) :
             \E r \in HoldingsOf(replayed, a) :
               /\ r.quantity = h.quantity
               /\ r.totalInvested = h.totalInvested
               /\ r.averageBuyPrice = h.averageBuyPrice

\* C8: in every portfolio state, totalValue = balance + the sum of the
\* holdings' currentValue and totalInvested = the sum of their totalInvested.
C8_TotalsConsistent ==
  /\ portfolio.totalValue
       = RAdd(portfolio.balance, SumField(portfolio.holdings, "currentValue"))
  /\ portfolio.totalInvested = SumField(portfolio.holdings, "totalInvested")

\* C9: for quantity > 0 and price > 0, validateTrade rejects a buy exactly
\* when quantity * price * (1 + 0.001) > balance and rejects a sell exactly
\* when no holding of the asset exists or quantity exceeds the held quantity;
\* a rejection is a result with valid: false and an error.
C9_ValidateTrade ==
  (/\ call.fn = "validateTrade"
   /\ RLt(R(0), call.quantity)
   /\ RLt(R(0), call.price))
  => LET needed == RMul(RMul(call.quantity, call.price), Frac(1001, 1000))
         held == HoldingsOf(call.portfolio, call.asset)
     IN  /\ call.type = "buy" =>
               (~call.result.valid <=> RLt(call.portfolio.balance, needed))
         /\ call.type = "sell" =>
               (~call.result.valid <=>
                  \/ held = {}
                  \/ \E h \in held : RLt(h.quantity, call.quantity))
         /\ ~call.result.valid => call.result.error # ""

\* the buy of 1 unit at price 10 with balance 5 was rejected for its balance
C9_Witness ==
  /\ call.fn = "validateTrade"
  /\ call.type = "buy"
  /\ call.quantity = R(1)
  /\ call.price = R(10)
  /\ call.portfolio.balance = R(5)
  /\ ~call.result.valid
  /\ call.result.error = "BALANCE"

\* the step is a sell that leaves a holding of the sold asset
PartialSellStep(h) ==
  /\ Len(trades') = Len(trades) + 1
  /\ trades'[Len(trades')].type = "sell"
  /\ trades'[Len(trades')].asset = h.asset
  /\ HoldingsOf(portfolio', h.asset) # {}

\* C10: a partial sell of quantity q from a holding of quantity Q leaves the
\* holding's averageBuyPrice unchanged and reduces its totalInvested by
\* exactly totalInvested * q / Q.
C10_PartialSellKeepsAverage ==
  [][\A i \in 1..Len(portfolio.holdings) :
       LET h == portfolio.holdings[i]
           q == trades'[Len(trades')].quantity
       IN  PartialSellStep(h) =>
             \A g \in HoldingsOf(portfolio', h.asset) :
               /\ g.quantity = RSub(h.quantity, q)
               /\ g.averageBuyPrice = h.averageBuyPrice
               /\ RSub(h.totalInvested, g.totalInvested)
                    = RDiv(RMul(h.totalInvested, q), h.quantity)]_vars

\* a sell has just left part of a holding whose average price is not its
\* totalInvested / quantity, so that an average left alone is told apart from
\* one that was recomputed
C10_Witness ==
  /\ Len(trades) > 1
  /\ trades[Len(trades)].type = "sell"
  /\ \E h \in HoldingsOf(portfolio, trades[Len(trades)].asset) :
       /\ RLt(R(0), h.quantity)
       /\ h.averageBuyPrice # RDiv(h.totalInvested, h.quantity)

\* x <= 1e-8, as the claim states it
AtMostThreshold(x) == RLe(x, Frac(1, EXIT_THRESHOLD_INV))

\* C11 as claimed: after any sequence of trades the portfolio contains no
\* holding with quantity <= 1e-8.
C11_NoHoldingAtOrBelowThreshold ==
  \A i \in 1..Len(portfolio.holdings) :
    ~AtMostThreshold(portfolio.holdings[i].quantity)

\* the step is a sell of the holding's asset that leaves it <= 1e-8
SellToThresholdStep(h) ==
  /\ Len(trades') = Len(trades) + 1
  /\ trades'[Len(trades')].type = "sell"
  /\ trades'[Len(trades')].asset = h.asset
  /\ AtMostThreshold(RSub(h.quantity, trades'[Len(trades')].quantity))

\* C11 as amended: a sell that leaves a remaining quantity <= 1e-8 removes
\* the holding entirely, in the portfolio executeTrade returns and in the
\* replay of the recorded trades; every other holding is left as it was.
C11_SellToThresholdRemovesHolding ==
  [][\A i \in 1..Len(portfolio.holdings) :
       LET h == portfolio.holdings[i]
       IN  SellToThresholdStep(h) =>
             /\ HoldingsOf(portfolio', h.asset) = {}
             /\ FindHolding(HoldingsMapFromTrades(trades'), h.asset) = 0
             /\ \A j \in 1..Len(portfolio.holdings) :
                  j # i => portfolio.holdings[j] \in
                             {portfolio'.holdings[k] :
                                k \in 1..Len(portfolio'.holdings)}]_vars

\* the last trade sold 2e-8 of a holding of 3e-8: 1e-8 was left, not 0, and
\* the holding is gone
C11_Witness ==
  /\ Len(trades) > 1
  /\ trades[Len(trades)].type = "sell"
  /\ LET a == trades[Len(trades)].asset
         before == HoldingsMapFromTrades(SubSeq(trades, 1, Len(trades) - 1))
         i == FindHolding(before, a)
     IN  /\ i > 0
         /\ RLt(R(0), RSub(before[i].quantity, trades[Len(trades)].quantity))
         /\ AtMostThreshold(RSub(before[i].quantity,
                                 trades[Len(trades)].quantity))
         /\ HoldingsOf(portfolio, a) = {}

\* C12: closePosition(position, closePrice, reason) sets realizedPnL =
\* pnl(closePrice) - openFee - closeFee - fundingFees, where closeFee is 0 if
\* and only if reason is LIQUIDATION and margin * leverage * 0.0005 otherwise,
\* and sets status LIQUIDATED if and only if reason is LIQUIDATION (CLOSED
\* otherwise).
C12_ClosePosition ==
  call.fn = "closePosition" =>
    LET p == call.position
        r == call.result
        move == IF p.side = "LONG" THEN RSub(call.closePrice, p.entryPrice)
                ELSE RSub(p.entryPrice, call.closePrice)
        pnl == RMul(move, p.quantity)
        fee == RMul(RMul(p.margin, p.leverage), Frac(5, 10000))
    IN  /\ r.realizedPnL
             = RSub(RSub(RSub(pnl, p.openFee), r.closeFee), p.fundingFees)
        /\ (r.closeFee = R(0)) <=> (call.reason = "LIQUIDATION")
        /\ call.reason # "LIQUIDATION" => r.closeFee = fee
        /\ (r.status = "LIQUIDATED") <=> (call.reason = "LIQUIDATION")
        /\ call.reason # "LIQUIDATION" => r.status = "CLOSED"
        /\ r.closeReason = call.reason

\* a position with funding fees was closed by a liquidation at a loss
C12_Witness ==
  /\ call.fn = "closePosition"
  /\ call.reason = "LIQUIDATION"
  /\ call.position.fundingFees = R(3)
  /\ call.result.status = "LIQUIDATED"
  /\ call.result.closeFee = R(0)
  /\ RLt(call.result.realizedPnL, R(0))

\* the position of the scenario: LONG, margin 1000, leverage 10, entry 50,000
ScenarioPosition(p) ==
  /\ p.side = "LONG"
  /\ p.margin = R(1000)
  /\ p.leverage = R(10)
  /\ p.entryPrice = R(50000)

\* C13: for every leverage L in [1, 100] and entry price E > 0, the
\* liquidation price fixed at open is E * (1 - 1/L + 0.01) for LONG and
\* E * (1 + 1/L - 0.01) for SHORT, i.e. |liquidationPrice / E - 1| =
\* 1/L - 0.01; for LONG, margin 1000, L = 10, E = 50,000 this gives
\* liquidationPrice 45,500 and quantity 0.2, unrealized PnL 1,000 at price
\* 55,000, and the position is flagged for liquidation at price 45,500.
C13_LiquidationPrice ==
  /\ call.fn = "openFuturesPosition" =>
       LET p == call.result
           E == call.asset.current_price
           invL == RDiv(R(1), call.formData.leverage)
       IN  /\ p.side = "LONG" =>
                p.liquidationPrice
                  = RMul(E, RAdd(RSub(R(1), invL), Frac(1, 100)))
           /\ p.side = "SHORT" =>
                p.liquidationPrice
                  = RMul(E, RSub(RAdd(R(1), invL), Frac(1, 100)))
           /\ RAbs(RSub(RDiv(p.liquidationPrice, E), R(1)))
                = RSub(invL, Frac(1, 100))
           /\ ScenarioPosition(p) =>
                p.liquidationPrice = R(45500) /\ p.quantity = Frac(2, 10)
  /\ call.fn = "updatePositionPnL" =>
       /\ call.result.liquidationPrice = call.position.liquidationPrice
       /\ ScenarioPosition(call.position) =>
            /\ call.currentPrice = R(55000) =>
                 call.result.unrealizedPnL = R(1000)
            /\ call.currentPrice = R(45500) =>
                 /\ Len(call.triggers.toClose) = 1
                 /\ call.triggers.toClose[1].reason = "LIQUIDATION"

\* the position of the scenario was marked to 45,500 and flagged
C13_Witness ==
  /\ call.fn = "updatePositionPnL"
  /\ ScenarioPosition(call.position)
  /\ call.position.liquidationPrice = R(45500)
  /\ call.currentPrice = R(45500)
  /\ Len(call.triggers.toClose) = 1

\* C14: while the price feed is reachable, each firing of the dashboard's
\* 60-second refresh timer obtains prices newly fetched from the feed rather
\* than a cache hit.
C14_TimerFiringFetches ==
  (/\ loaded.source # "none"
   /\ loaded.byTimer
   /\ ~loaded.failedBefore
   /\ ~clock.failed)
  => loaded.source = "fetch"

\* the cache entry the call found was younger than 60 seconds
YoungAtStart(c) ==
  /\ c.cacheAtStart.set
  /\ c.startedAt - c.cacheAtStart.timestamp < 60000

\* C15: getMarketPrices called with caching enabled while the cache entry is
\* younger than 60 seconds returns the cached data without issuing a fetch;
\* when the entry is absent or at least 60 seconds old it issues a fetch, and
\* a successful fetch replaces the cache entry and sets its timestamp to the
\* completion time.
C15_CacheWindow ==
  call.fn = "getMarketPrices" =>
    /\ (call.useCache /\ YoungAtStart(call)) =>
         /\ ~call.fetched
         /\ call.data = call.cacheAtStart.data
         /\ call.cacheAfter = call.cacheAtStart
    /\ ~YoungAtStart(call) => call.fetched
    /\ (call.fetched /\ call.ok) =>
         /\ call.cacheAfter.set
         /\ call.cacheAfter.data = call.data
         /\ call.cacheAfter.timestamp = call.resolvedAt
         /\ call.data.fetchedAt = call.resolvedAt

\* a call found an entry between 0 and 60 seconds old and returned its data
C15_Witness ==
  /\ call.fn = "getMarketPrices"
  /\ call.useCache
  /\ call.cacheAtStart.set
  /\ call.startedAt > call.cacheAtStart.timestamp
  /\ ~call.fetched
  /\ call.data.fetchedAt < call.startedAt

\* C16: getMarketPrices never propagates a feed failure: when the fetch
\* fails it resolves with the last successfully cached data, however old,
\* leaving the cache entry and its timestamp unchanged, and it resolves with
\* an empty list if no cache entry exists.
C16_FailureFallsBack ==
  (call.fn = "getMarketPrices" /\ call.fetched /\ ~call.ok) =>
    /\ call.cacheAfter = call.cacheBefore
    /\ call.cacheBefore.set => call.data = call.cacheBefore.data
    /\ ~call.cacheBefore.set => call.data.length = 0

\* a fetch failed while the cache entry was more than 60 seconds old, and
\* the call resolved with that entry's data
C16_Witness ==
  /\ call.fn = "getMarketPrices"
  /\ call.fetched
  /\ ~call.ok
  /\ call.cacheBefore.set
  /\ call.resolvedAt - call.cacheBefore.timestamp > 60000
  /\ call.data = call.cacheBefore.data
  /\ call.data.length > 0

\* the result says that the data do not suffice
InsufficientDataMessage(result) ==
  \/ /\ "recommendation" \in DOMAIN result
     /\ result.recommendation = "INSUFFICIENT_DATA_50_CANDLES"
  \/ /\ "warnings" \in DOMAIN result
     /\ \E i \in 1..Len(result.warnings) :
          result.warnings[i] \in {"INSUFFICIENT_DATA",
                                  "INSUFFICIENT_CONFIRMATIONS"}

\* C17 as stated: for any candle sequence shorter than 20 candles, the
\* full-profile signal aggregator returns type neutral with confidence 0 and
\* an explicit insufficient-data message.
C17_FewCandlesNeutral ==
  (/\ call.fn \in {"calculateQuickSignalFromCandles",
                   "generateAdvancedTradingSignals"}
   /\ call.candles < 20) =>
    /\ call.result.type = "neutral"
    /\ "confidence" \in DOMAIN call.result
    /\ call.result.confidence = 0
    /\ InsufficientDataMessage(call.result)

\* C17: for any candle sequence shorter than 20 candles,
\* calculateQuickSignalFromCandles returns the fast-profile signal of the
\* asset's 24h snapshot (any class, qualityScore at most 40); below 50
\* candles generateAdvancedTradingSignals returns type neutral with
\* confidence 0 and an insufficient-data recommendation.
C17_FewCandlesFallBack ==
  /\ (call.fn = "calculateQuickSignalFromCandles" /\ call.candles < 20) =>
       /\ call.result = calculateQuickSignal(call.asset)
       /\ call.result.qualityScore <= 40
  /\ (call.fn = "generateAdvancedTradingSignals" /\ call.candles < 50) =>
       /\ call.result.type = "neutral"
       /\ call.result.confidence = 0
       /\ InsufficientDataMessage(call.result)

\* 19 candles and a snapshot 9% up: the signal is a buy-side one
C17_Witness ==
  /\ call.fn = "calculateQuickSignalFromCandles"
  /\ call.candles = 19
  /\ call.asset.price_change_percentage_24h = R(9)
  /\ call.result.type \in {"extreme-buy", "strong-buy"}
  /\ ~InsufficientDataMessage(call.result)

\* the 9 classes in their order, extreme-sell lowest
ClassRank(type) ==
  CASE type = "extreme-sell" -> 1
    [] type = "strong-sell" -> 2
    [] type = "sell" -> 3
    [] type = "weak-sell" -> 4
    [] type = "neutral" -> 5
    [] type = "weak-buy" -> 6
    [] type = "buy" -> 7
    [] type = "strong-buy" -> 8
    [] type = "extreme-buy" -> 9

FullProfileCall ==
  call.fn = "calculateQuickSignalFromCandles" /\ call.candles >= 20

\* C18: the full-profile class is determined by the net score (bullish -
\* bearish confirmations) monotonically: for equal warnings a higher net
\* score never yields a lower class, a buy-side class is never returned when
\* the net score is <= 0, and a sell-side class never when it is >= 0.
C18_ClassMonotoneInNetScore ==
  FullProfileCall =>
    LET netScore == call.bullishConfirmations - call.bearishConfirmations
        rank == ClassRank(call.result.type)
    IN  /\ rank > 5 => netScore > 0
        /\ rank < 5 => netScore < 0
        /\ \A t \in IndicatorVotes :
             t[1] - t[2] > netScore =>
               ClassRank(QualityAndClass(
                 [bullishConfirmations |-> t[1],
                  bearishConfirmations |-> t[2],
                  confirmations |-> <<"VOTES">>,
                  warnings |-> call.warnings]).type) >= rank

\* the quality score of the recorded vote count
CallQualityScore ==
  Min(100, Max(0, (Max(call.bullishConfirmations, call.bearishConfirmations)
                   * 6) - (Len(call.warnings) * 5)))

\* C19: in the full profile a signal is extreme-buy or extreme-sell only if
\* its qualityScore = min(100, max(0, max(bullish, bearish)*6 - warnings*5))
\* is at least 70, and strong-buy or strong-sell only if it is at least 45.
C19_QualityGatesTiers ==
  FullProfileCall =>
    /\ call.result.type \in {"extreme-buy", "extreme-sell"} =>
         /\ CallQualityScore >= 70
         /\ call.result.qualityScore = CallQualityScore
    /\ call.result.type \in {"strong-buy", "strong-sell"} =>
         /\ CallQualityScore >= 45
         /\ call.result.qualityScore = CallQualityScore

\* 12 or more votes on one side and warnings that bring the quality score
\* under 70: the signal is not an extreme one
C19_Witness ==
  /\ FullProfileCall
  /\ Max(call.bullishConfirmations, call.bearishConfirmations) >= 12
  /\ Len(call.warnings) >= 1
  /\ CallQualityScore < 70
  /\ call.result.type \notin {"extreme-buy", "extreme-sell"}

\* C20: for every signal produced by generateAdvancedTradingSignals,
\* including the insufficient-data signal and every combination of
\* classification and ADX adjustment, the probabilities bullish + bearish +
\* reversal + consolidation equal exactly 100.
C20_ProbabilitiesSumTo100 ==
  call.fn = "generateAdvancedTradingSignals" =>
    LET p == call.result.probabilities
    IN  p.bullishContinuation + p.bearishContinuation + p.reversal
          + p.consolidation = 100

\* a strong-sell with the ADX under 20: the bullish share 10 is lowered by
\* 7 and the consolidation raised by 15
C20_Witness ==
  /\ call.fn = "generateAdvancedTradingSignals"
  /\ call.candles >= 50
  /\ call.adx.adx < 20
  /\ call.result.type = "strong-sell"
  /\ call.result.probabilities.bullishContinuation = 3
  /\ call.result.probabilities.consolidation = 35

\* C30: in generateAdvancedTradingSignals every indicator whose reported
\* signal is 'sell' adds to the sell vote accumulator only, and every
\* indicator whose reported signal is 'buy' adds to the buy accumulator only.
C30_VotesFollowSignals ==
  (call.fn = "generateAdvancedTradingSignals" /\ call.candles >= 50) =>
    \A i \in 1..Len(call.result.indicators) :
      LET ind == call.result.indicators[i]
      IN  /\ ind.signal = "sell" => (ind.buy = 0 /\ ind.sell > 0)
          /\ ind.signal = "buy" => (ind.sell = 0 /\ ind.buy > 0)

WellFormedCandle(c) ==
  /\ RLe(c.open, c.high) /\ RLe(c.close, c.high)
  /\ RLe(c.low, c.open) /\ RLe(c.low, c.close)

\* C21: every candle in a series returned by updateCandlestickData, whether
\* it updates the last candle or appends a new one, satisfies
\* high >= max(open, close) and low <= min(open, close).
C21_CandlesWellFormed ==
  call.fn = "updateCandlestickData" =>
    \A i \in 1..Len(call.data) : WellFormedCandle(call.data[i])

\* C22: the trade list is append-only: each executed trade is appended at
\* the end, and no previously recorded trade is modified, removed or
\* reordered by any later trade, price update or futures operation.
C22_TradesAppendOnly ==
  [][/\ Len(trades') \in {Len(trades), Len(trades) + 1}
     /\ SubSeq(trades', 1, Len(trades)) = trades]_vars

\* two different trades are recorded, in the order they were made, and a
\* futures position was opened and closed since
C22_Witness ==
  /\ Len(trades) = 2
  /\ trades[1] # trades[2]
  /\ trades[1].type = "buy"
  /\ ticks > 0
  /\ \E i \in 1..Len(futuresPositions) : futuresPositions[i].status # "OPEN"

\* the last tick has been processed by the trigger effect
TickProcessed ==
  /\ effect.phase \in {"idle", "rendering"}
  /\ AssetsLength(assets) > 0

\* C23: after each price tick is processed, every futures position that
\* remains OPEN has currentPrice equal to the latest feed price of its asset
\* and unrealizedPnL recomputed at that price, including on ticks where
\* other positions are closed by a trigger.
C23_OpenPositionsMarkedToMarket ==
  TickProcessed =>
    \A i \in 1..Len(futuresPositions) :
      LET p == futuresPositions[i]
      IN  (p.status = "OPEN" /\ assets[p.asset] # 0) =>
            /\ p.currentPrice = R(assets[p.asset])
            /\ p.unrealizedPnL = calculateUnrealizedPnL(p, R(assets[p.asset]))

\* C24: the loss realized on a futures position never exceeds its margin:
\* for every close, including a liquidation executed at a tick price beyond
\* the liquidation price, margin + realizedPnL >= 0, and the balance never
\* becomes negative through futures activity.
C24_LossAtMostMargin ==
  /\ \A i \in 1..Len(futuresPositions) :
       LET p == futuresPositions[i]
       IN  p.status # "OPEN" => RLe(R(0), RAdd(p.margin, p.realizedPnL))
  /\ RLe(R(0), portfolio.balance)

\* C25: for every order accepted by validateFuturesOrder (any leverage in
\* [1, 100], either side) the position created by openFuturesPosition is not
\* liquidatable at its own entry price: right after opening, shouldLiquidate
\* is false.
C25_NotLiquidatableAtEntry ==
  call.fn = "openFuturesPosition" =>
    /\ call.result.currentPrice = call.result.entryPrice
    /\ ~shouldLiquidate(call.result)

RECURSIVE TradeFlow(_)
\* what the recorded trades add to the balance
TradeFlow(ts) ==
  IF Len(ts) = 0 THEN R(0)
  ELSE RAdd(IF Head(ts).type = "buy" THEN RSub(R(0), Head(ts).netTotal)
            ELSE Head(ts).netTotal,
            TradeFlow(Tail(ts)))

RECURSIVE FuturesFlow(_)
\* what the recorded positions add to the balance: the margin taken at the
\* opening, and margin + realizedPnL returned at the close
FuturesFlow(ps) ==
  IF Len(ps) = 0 THEN R(0)
  ELSE RAdd(IF Head(ps).status = "OPEN" THEN RSub(R(0), Head(ps).margin)
            ELSE Head(ps).realizedPnL,
            FuturesFlow(Tail(ps)))

\* C26: after any sequence of spot trades, futures opens, price ticks,
\* automatic closes and user closes, balance = initial balance - sum of buy
\* netTotal + sum of sell netTotal - sum of the margins of opened positions
\* + sum of (margin + realizedPnL) of closed positions.
C26_BalanceIdentity ==
  (effect.phase \in {"idle", "rendering"}) =>
    portfolio.balance =
      RAdd(RAdd(R(INITIAL_BALANCE), TradeFlow(trades)),
           FuturesFlow(futuresPositions))

\* the quantity held of an asset, 0 without a holding
HeldQuantity(pf, assetId) ==
  IF FindHolding(pf.holdings, assetId) = 0 THEN R(0)
  ELSE pf.holdings[FindHolding(pf.holdings, assetId)].quantity

C28_ExportImportLossless ==
  (call.fn = "importData" /\ call.result) => call.after = call.before

\* the market data has just been refreshed: loadMarketData ran last
JustRefreshed == effect.phase = "pending" /\ AssetsLength(assets) > 0

\* C29: after each successful market price refresh, every spot holding's
\* currentPrice equals the latest feed price of its asset, and the holding's
\* currentValue and pnl and the portfolio's totalValue are recomputed from it.
C29_HoldingsMarkedToMarket ==
  JustRefreshed =>
    /\ \A i \in 1..Len(portfolio.holdings) :
         LET h == portfolio.holdings[i]
         IN  assets[h.asset] # 0 =>
               /\ h.currentPrice = R(assets[h.asset])
               /\ h.currentValue = RMul(h.quantity, R(assets[h.asset]))
               /\ h.pnl = RSub(h.currentValue, h.totalInvested)
    /\ portfolio.totalValue =
         calculatePortfolioValue(
           portfolio.balance,
           updateHoldingPrices(portfolio.holdings, assets)).totalValue

====
